---- MODULE Spec2Model ----
(***************************************************************************)
(* A model of the mount-table lock (libmount/src/lock.c) and of the mount  *)
(* table (shlibs/mount/src/tab.c, fs.c, tab_parse.c) of util-linux.        *)
(*                                                                         *)
(* Lock part: every process has one lock handle (struct libmnt_lock).  A   *)
(* step of the model is one system call of lock.c together with the        *)
(* process-private statements around it.  The file system, the fcntl and   *)
(* flock lock tables and the clock are shared.                             *)
(***************************************************************************)
EXTENDS Integers, Sequences, FiniteSets, TLC

(* ------------------------------------------------------------------ *)
(* Bounds of the model                                                 *)
(* ------------------------------------------------------------------ *)
NProcs == 2         \* concurrent updater processes (N)
Loops == 1          \* iterations of each updater (k)
TickSecs == 15      \* seconds the monotonic clock advances per Tick
FirstPid == 41      \* getpid() of process 1
MaxRef == 3         \* largest reference count explored
MaxFs == 3          \* mount entries that can be allocated
MaxLines == 2       \* lines of a parsed stream
MaxCycles == 2      \* lock/unlock cycles of one handle that are counted
MaxTimeouts == 2    \* timed-out acquisitions of one process that are counted
MaxNents == 4       \* largest tb->nents explored
MaxStrLen == 4       \* the longest option string walked item by item
MaxOptLen == 8       \* the longest option string a caller builds
MaxItems == 2        \* items of one option string given to a merge
MaxField == 6        \* bytes of one field of a table line

(* ------------------------------------------------------------------ *)
(* Program constants                                                   *)
(* ------------------------------------------------------------------ *)
MOUNTLOCK_MAXTIME == 30
ETIMEDOUT == 110
ENOENT == 2
EROFS == 30
EIO == 5
ENOLCK == 37
EINVAL == 22

Procs == 1..NProcs

NoIno == 0          \* "no such file": a path that names nothing
NoFd == -1          \* lockfile_fd of a handle with no descriptor
MNT_ITER_FORWARD == 0   \* the iterator walks list->next
MNT_ITER_BACKWARD == 1  \* the iterator walks list->prev

Signals == {"SIGINT", "SIGTERM", "SIGTRAP", "SIGALRM"}

(* Paths are sequences of one-character strings.                       *)
DataFiles == { <<"m">>, <<"a", ".", "l", "o", "c", "k">>, <<"b", "~">>, <<>> }
DataFile == <<"m">>     \* argv's datafile of test_lock
Ids == {0, 7, -3}       \* the id argument of mnt_new_lock

Min(a, b) == IF a < b THEN a ELSE b

(* ------------------------------------------------------------------ *)
(* String helpers                                                      *)
(* ------------------------------------------------------------------ *)
Digit(d) == <<"0", "1", "2", "3", "4", "5", "6", "7", "8", "9">>[d + 1]

RECURSIVE DecNat(_)
DecNat(n) == IF n < 10 THEN <<Digit(n)>> ELSE DecNat(n \div 10) \o <<Digit(n % 10)>>

(* printf("%d") *)
Dec(n) == IF n < 0 THEN <<"-">> \o DecNat(-n) ELSE DecNat(n)

(* endswith(s, sx): s ends with the string sx *)
endswith(s, sx) ==
    Len(s) >= Len(sx) /\ SubSeq(s, Len(s) - Len(sx) + 1, Len(s)) = sx

Pid(p) == FirstPid + p - 1

(* ------------------------------------------------------------------ *)
(* The lock handle                                                     *)
(* ------------------------------------------------------------------ *)
LockName(D) == D \o <<"~">>
SimpleName(D) == D \o <<".", "l", "o", "c", "k">>
LinkName(D, id) == D \o <<"~", ".">> \o Dec(id)

NoLock ==
    [alive |-> FALSE, refcount |-> 0, lockfile |-> <<>>, linkfile |-> <<>>,
     lockfile_fd |-> NoFd, locked |-> FALSE, sigblock |-> FALSE,
     simplelock |-> FALSE, oldsigmask |-> {}]

mnt_new_lock(D, id, pid) ==
    [alive |-> TRUE, refcount |-> 1,
     lockfile |-> LockName(D),
     linkfile |-> LinkName(D, IF id # 0 THEN id ELSE pid),
     lockfile_fd |-> NoFd, locked |-> FALSE, sigblock |-> FALSE,
     simplelock |-> FALSE, oldsigmask |-> {}]

AllPaths == UNION { {LockName(D), SimpleName(D)} : D \in DataFiles }

VARIABLES
    ml,         \* ml[p]: the lock handle of process p
    pc,         \* pc[p]: where process p is
    rc,         \* rc[p]: return value of the last mnt_lock_file
    infail,     \* infail[p]: mnt_unlock_file runs from lock_mtab's failed: label
    exiting,    \* exiting[p]: mnt_unlock_file runs from clean_lock at exit
    loopno,     \* loopno[p]: l of test_lock
    num,        \* num[p]: the number increment_data read
    elapsed,    \* elapsed[p]: seconds since lock_mtab computed maxtime
    procmask,   \* procmask[p]: the signal mask of process p
    maskBefore, \* history: the mask when the last mnt_lock_file was entered
    blockAtLock,\* history: the protocol that blocked signals then, or "none"
    cycles,     \* history: cycles[p] = times the handle went locked -> idle
    timeouts,   \* history: -ETIMEDOUT returns of p with a stale lockfile on disk
    newArgs,    \* history: the arguments of the mnt_new_lock that made ml[p]
    files,      \* files[path]: the inode a lockfile path names, or NoIno
    owner,      \* history: owner[path] = the process whose link() made path
    linkino,    \* linkino[p]: the inode of p's linkfile, or NoIno
    flk,        \* flk[p]: the inode p holds an fcntl write lock on, or NoIno
    flockOn,    \* flockOn[p]: the inode p holds flock(LOCK_EX) on, or NoIno
    counter,    \* the number stored in the data file
    done,       \* history: done[p] = iterations p completed
    tb_ents,    \* the table's list: a sequence of entry ids
    tb_nents,   \* tb->nents
    fs_state,   \* fs_state[f]: "free", "new" (allocated) or "linked"
    parse_rc,   \* the return value of the last mnt_tab_parse_stream
    parse_call, \* history: the arguments and the table of that call
    fs_target,  \* fs_target[f]: fs->target of entry f, <<>> for NULL
    tb_cache,   \* tb->cache is set
    itr,        \* the caller's iterator: p, head and direction
    itr_rc,     \* the return value of the last mnt_tab_next_fs
    seen,       \* history: the entries returned since the last reset
    find,       \* history: the last mnt_tab_find_target call and its result
    ent,        \* one entry's source, tag, fstype and flags
    ent_call,   \* history: the last setter call on ent and its result
    um,         \* one field of a line: before and after unmangle_string
    fs_id,      \* fs_id[f]: fs->id of entry f, 0 when the line gave none
    fs_parent,  \* fs_parent[f]: fs->parent of entry f
    fs_rec,     \* fs_rec[f]: source, tag, fstype and flags of entry f
    find_src,   \* history: the last mnt_tab_find_srcpath call and its result
    sit,        \* history: the last mnt_tab_set_iter and the next that followed
    kid,        \* the caller's loop over one parent's children
    optstr,     \* the caller's option string, <<>> for NULL
    opt_call,   \* history: the last option-string call and its result
    mg,         \* the arguments and the result of merge_optstr
    pn,         \* the cursor and the results of mnt_optstr_next_option
    rt          \* an append followed by a remove: the arguments and the stage

handleVars == <<ml, pc, rc, infail, exiting, elapsed, procmask, maskBefore,
                blockAtLock, files, owner, linkino, flk, flockOn>>
handleVarsNoPc == <<ml, rc, infail, exiting, elapsed, procmask, maskBefore,
                    blockAtLock, files, owner, linkino, flk, flockOn>>
testVars == <<loopno, num, counter, done>>
histVars == <<cycles, timeouts, newArgs>>
tabVars == <<tb_ents, tb_nents, fs_state, parse_rc>>
iterVars == <<tb_cache, itr, itr_rc, seen, find>>
idVars == <<fs_id, fs_parent, fs_rec>>
kinVars == <<idVars, sit, kid, find_src>>
entVars == <<ent, ent_call, um, kinVars>>
optVars == <<optstr, opt_call, mg, pn, rt>>
libVars == <<parse_call, fs_target, iterVars, entVars, optVars>>
vars == <<handleVars, testVars, histVars, tabVars, libVars>>

(* ------------------------------------------------------------------ *)
(* File system helpers                                                 *)
(* ------------------------------------------------------------------ *)
InodesInUse ==
    {files[x] : x \in AllPaths} \cup {linkino[p] : p \in Procs}
        \cup {flk[p] : p \in Procs} \cup {flockOn[p] : p \in Procs}
        \cup {ml[p].lockfile_fd : p \in Procs}

(* The inode number of a file created by process p: the g-th number of p's
   own series that nothing refers to.  Numbers are arbitrary but distinct
   for files that exist together; a number is used again once free. *)
InoOf(p, g) == p + g * (NProcs + 1)

FreshIno(p) ==
    InoOf(p, CHOOSE g \in 0..Cardinality(InodesInUse) :
                /\ InoOf(p, g) \notin InodesInUse
                /\ \A h \in 0..(g - 1) : InoOf(p, h) \in InodesInUse)

(* a conflicting fcntl write lock of another process on inode i *)
LockedByOther(p, i) == \E q \in Procs \ {p} : flk[q] = i

BlockSetMtab == Signals \ {"SIGTRAP", "SIGALRM"}
BlockSetSimple == Signals

(* ------------------------------------------------------------------ *)
(* mnt_lock_file, hard-link protocol (lock_mtab)                       *)
(* ------------------------------------------------------------------ *)
SetMl(p, r) == ml' = [ml EXCEPT ![p] = r]

(* goto failed: mnt_unlock_file(ml); return rc *)
GotoFailed(p, code) ==
    /\ rc' = [rc EXCEPT ![p] = code]
    /\ infail' = [infail EXCEPT ![p] = TRUE]
    /\ pc' = [pc EXCEPT ![p] = "u_enter"]

(* history: which protocol is about to block signals for this acquisition *)
ProtocolBlocking(p) ==
    IF ~ml[p].sigblock THEN "none"
    ELSE IF ml[p].simplelock THEN "simple" ELSE "mtab"

(* sigprocmask(SIG_BLOCK, sigs, &ml->oldsigmask) when ml->sigblock *)
BlockSignals(p, sigs) ==
    /\ procmask' = [procmask EXCEPT ![p] =
                        IF ml[p].sigblock THEN @ \cup sigs ELSE @]
    /\ maskBefore' = [maskBefore EXCEPT ![p] = procmask[p]]
    /\ blockAtLock' = [blockAtLock EXCEPT ![p] = ProtocolBlocking(p)]

SavedMask(p) == IF ml[p].sigblock THEN procmask[p] ELSE ml[p].oldsigmask

(* lock_mtab called on a handle that is locked already: return 0 *)
LockMtabAgain(p) ==
    /\ pc[p] = "call_lock" /\ ~ml[p].simplelock /\ ml[p].locked
    /\ rc' = [rc EXCEPT ![p] = 0]
    /\ pc' = [pc EXCEPT ![p] = "ret_lock"]
    /\ UNCHANGED <<ml, infail, exiting, elapsed, procmask, maskBefore,
                   blockAtLock, files, owner, linkino, flk, flockOn>>
    /\ UNCHANGED <<testVars, histVars, tabVars, libVars>>

(* faulty variant: the linkfile is always made anew *)
OpenLinkfileAnew(p) == FreshIno(p)

(* open(linkfile, O_WRONLY|O_CREAT|O_CLOEXEC, S_IRUSR|S_IWUSR): without
   O_EXCL a file that exists is opened as it is *)
OpenLinkfile(p) == IF linkino[p] # NoIno THEN linkino[p] ELSE FreshIno(p)

(* block the signals, open(linkfile, O_WRONLY|O_CREAT), close, maxtime *)
LockMtabEnter(p) ==
    /\ pc[p] = "call_lock" /\ ~ml[p].simplelock /\ ~ml[p].locked
    /\ BlockSignals(p, BlockSetMtab)
    /\ SetMl(p, [ml[p] EXCEPT !.oldsigmask = SavedMask(p)])
    /\ linkino' = [linkino EXCEPT ![p] = OpenLinkfile(p)]
    /\ elapsed' = [elapsed EXCEPT ![p] = 0]
    /\ pc' = [pc EXCEPT ![p] = "l_link"]
    /\ UNCHANGED <<rc, infail, exiting, files, owner, flk, flockOn>>
    /\ UNCHANGED <<testVars, histVars, tabVars, libVars>>

(* now.tv_sec >= maxtime: the deadline of this lock_mtab call is reached *)
Expired(p) == elapsed[p] >= MOUNTLOCK_MAXTIME

(* the linkfile cannot be created (read-only or full file system) *)
LinkfileCreateFails(p) ==
    /\ pc[p] = "call_lock" /\ ~ml[p].simplelock /\ ~ml[p].locked
    /\ linkino[p] = NoIno
    /\ BlockSignals(p, BlockSetMtab)
    /\ SetMl(p, [ml[p] EXCEPT !.oldsigmask = SavedMask(p)])
    /\ GotoFailed(p, -EROFS)
    /\ UNCHANGED <<exiting, elapsed, files, owner, linkino, flk, flockOn>>
    /\ UNCHANGED <<testVars, histVars, tabVars, libVars>>

(* faulty variant: a link() that replaces an existing lockfile *)
LinkResultOverwrite(p) ==
    IF linkino[p] = NoIno THEN "ENOENT" ELSE "OK"
(* link(linkfile, lockfile) is atomic: it fails when lockfile exists *)
LinkResult(p) ==
    IF linkino[p] = NoIno THEN "ENOENT"
    ELSE IF files[ml[p].lockfile] # NoIno THEN "EEXIST"
    ELSE "OK"

(* faulty variant: EEXIST taken for success *)
LinkMadeByUsOrExists(j) == j \in {"OK", "EEXIST"}
(* if (j == 0) ml->locked = 1 *)
LinkMadeByUs(j) == j = "OK"

(* j = link(linkfile, lockfile); a j < 0 other than EEXIST goes to failed *)
TryLink(p) ==
    /\ pc[p] = "l_link"
    /\ LET j == LinkResult(p) IN
       /\ IF j = "OK"
          THEN /\ files' = [files EXCEPT ![ml[p].lockfile] = linkino[p]]
               /\ owner' = [owner EXCEPT ![ml[p].lockfile] = p]
          ELSE UNCHANGED <<files, owner>>
       /\ SetMl(p, [ml[p] EXCEPT !.locked = @ \/ LinkMadeByUs(j)])
       /\ IF j \in {"OK", "EEXIST"}
          THEN /\ pc' = [pc EXCEPT ![p] = "l_open"]
               /\ UNCHANGED <<rc, infail>>
          ELSE GotoFailed(p, -ENOENT)
    /\ UNCHANGED <<exiting, elapsed, procmask, maskBefore, blockAtLock,
                   linkino, flk, flockOn>>
    /\ UNCHANGED <<testVars, histVars, tabVars, libVars>>

(* faulty variant: the retry that forgets the deadline *)
RetryOnEnoentAlways(p) == TRUE
(* if (errsv == ENOENT && now.tv_sec < maxtime.tv_sec) continue *)
RetryOnEnoent(p) == ~Expired(p)

(* ml->lockfile_fd = open(lockfile, O_WRONLY); ENOENT before the deadline
   retries; when another process made the link, mnt_wait_mtab_lock reads
   the clock and gives up at once when the deadline is reached *)
OpenLockfile(p) ==
    /\ pc[p] = "l_open"
    /\ LET ino == files[ml[p].lockfile] IN
       IF ino = NoIno
       THEN IF RetryOnEnoent(p)
            THEN /\ SetMl(p, [ml[p] EXCEPT !.locked = FALSE])
                 /\ pc' = [pc EXCEPT ![p] = "l_link"]
                 /\ UNCHANGED <<rc, infail>>
            ELSE /\ GotoFailed(p, -ENOENT)
                 /\ UNCHANGED ml
       ELSE /\ SetMl(p, [ml[p] EXCEPT !.lockfile_fd = ino])
            /\ IF ml[p].locked
               THEN /\ pc' = [pc EXCEPT ![p] = "l_setlk"]
                    /\ UNCHANGED <<rc, infail>>
               ELSE IF Expired(p)
               THEN GotoFailed(p, -ETIMEDOUT)
               ELSE /\ pc' = [pc EXCEPT ![p] = "l_blocked"]
                    /\ UNCHANGED <<rc, infail>>
    /\ UNCHANGED <<exiting, elapsed, procmask, maskBefore, blockAtLock,
                   files, owner, linkino, flk, flockOn>>
    /\ UNCHANGED <<testVars, histVars, tabVars, libVars>>

(* We made the link: fcntl(F_SETLK), whose failure is ignored; break;
   unlink(linkfile); return 0 *)
ClaimLock(p) ==
    /\ pc[p] = "l_setlk"
    /\ flk' = [flk EXCEPT ![p] =
                 IF LockedByOther(p, ml[p].lockfile_fd) THEN @
                 ELSE ml[p].lockfile_fd]
    /\ linkino' = [linkino EXCEPT ![p] = NoIno]
    /\ rc' = [rc EXCEPT ![p] = 0]
    /\ pc' = [pc EXCEPT ![p] = "ret_lock"]
    /\ elapsed' = [elapsed EXCEPT ![p] = 0]
    /\ UNCHANGED <<ml, infail, exiting, procmask, maskBefore,
                   blockAtLock, files, owner, flockOn>>
    /\ UNCHANGED <<testVars, histVars, tabVars, libVars>>

(* fcntl(F_SETLKW) returns with the lock once no other process holds one *)
WaitAcquire(p) ==
    /\ pc[p] = "l_blocked"
    /\ ~LockedByOther(p, ml[p].lockfile_fd)
    /\ flk' = [flk EXCEPT ![p] = ml[p].lockfile_fd]
    /\ pc' = [pc EXCEPT ![p] = "l_sleep"]
    /\ UNCHANGED <<ml, rc, infail, exiting, elapsed, procmask, maskBefore,
                   blockAtLock, files, owner, linkino, flockOn>>
    /\ UNCHANGED <<testVars, histVars, tabVars, libVars>>

(* the alarm set for the deadline interrupts fcntl(F_SETLKW): EINTR, so
   mnt_wait_mtab_lock returns 1 and lock_mtab fails with -ETIMEDOUT *)
WaitAlarm(p) ==
    /\ pc[p] = "l_blocked"
    /\ Expired(p)
    /\ GotoFailed(p, -ETIMEDOUT)
    /\ UNCHANGED <<ml, exiting, elapsed, procmask, maskBefore, blockAtLock,
                   files, owner, linkino, flk, flockOn>>
    /\ UNCHANGED <<testVars, histVars, tabVars, libVars>>

(* nanosleep(&waittime); close(ml->lockfile_fd); ml->lockfile_fd = -1 *)
SleepClose(p) ==
    /\ pc[p] = "l_sleep"
    /\ flk' = [flk EXCEPT ![p] = NoIno]
    /\ SetMl(p, [ml[p] EXCEPT !.lockfile_fd = NoFd])
    /\ pc' = [pc EXCEPT ![p] = "l_link"]
    /\ UNCHANGED <<rc, infail, exiting, elapsed, procmask, maskBefore,
                   blockAtLock, files, owner, linkino, flockOn>>
    /\ UNCHANGED <<testVars, histVars, tabVars, libVars>>

InLockMtab(p) == pc[p] \in {"l_link", "l_open", "l_setlk", "l_blocked", "l_sleep"}

(* the monotonic clock advances *)
Tick ==
    /\ \E p \in Procs : InLockMtab(p) /\ ~Expired(p)
    /\ elapsed' = [p \in Procs |->
                     IF InLockMtab(p)
                     THEN Min(MOUNTLOCK_MAXTIME, elapsed[p] + TickSecs)
                     ELSE elapsed[p]]
    /\ UNCHANGED <<ml, pc, rc, infail, exiting, procmask, maskBefore,
                   blockAtLock, files, owner, linkino, flk, flockOn>>
    /\ UNCHANGED <<testVars, histVars, tabVars, libVars>>

(* ------------------------------------------------------------------ *)
(* mnt_unlock_file                                                     *)
(* ------------------------------------------------------------------ *)
(* ml->locked = 0; ml->lockfile_fd = -1; restore the mask; return to the
   caller: lock_mtab's failed: label returns rc to mnt_lock_file's caller *)
(* faulty variant: the mask is never restored *)
RestoredMaskNever(p) == procmask[p]
(* if (ml->sigblock) sigprocmask(SIG_SETMASK, &ml->oldsigmask, NULL) *)
RestoredMask(p) == IF ml[p].sigblock THEN ml[p].oldsigmask ELSE procmask[p]

(* faulty variant: lockfile_fd is not reset *)
UnlockedKeepsFd(r) == [r EXCEPT !.locked = FALSE]

Unlocked(r) == [r EXCEPT !.locked = FALSE, !.lockfile_fd = NoFd]

UnlockFinish(p) ==
    /\ SetMl(p, Unlocked(ml[p]))
    /\ procmask' = [procmask EXCEPT ![p] = RestoredMask(p)]
    /\ cycles' = [cycles EXCEPT ![p] =
                      IF ml[p].locked THEN Min(MaxCycles, @ + 1) ELSE @]
    /\ pc' = [pc EXCEPT ![p] = IF infail[p] THEN "ret_lock" ELSE "ret_unlock"]
    /\ infail' = [infail EXCEPT ![p] = FALSE]
    /\ elapsed' = [elapsed EXCEPT ![p] = 0]

(* close(ml->lockfile_fd): the process drops its locks on that file *)
CloseFd(p) ==
    /\ flk' = [flk EXCEPT ![p] = IF ml[p].lockfile_fd # NoFd THEN NoIno ELSE @]
    /\ flockOn' = [flockOn EXCEPT ![p] =
                        IF ml[p].lockfile_fd # NoFd THEN NoIno ELSE @]

(* unlock_simplelock *)
UnlockSimple(p) ==
    /\ pc[p] = "u_enter" /\ ml[p].simplelock
    /\ CloseFd(p)
    /\ UnlockFinish(p)
    /\ UNCHANGED <<rc, exiting, maskBefore, blockAtLock, files,
                   owner, linkino>>
    /\ UNCHANGED <<testVars, timeouts, newArgs, tabVars, libVars>>

(* faulty variant: ownership is never derived from the files *)
OwnsByStatNever(p) == FALSE

(* faulty variant: any existing lockfile is taken for ours *)
OwnsByStatAlways(p) == files[ml[p].lockfile] # NoIno
(* We own the lock when linkfile == lockfile (same st_dev and st_ino) *)
OwnsByStat(p) ==
    /\ files[ml[p].lockfile] # NoIno
    /\ linkino[p] # NoIno
    /\ files[ml[p].lockfile] = linkino[p]

(* unlock_mtab: the stat() recovery of ml->locked, unlink(linkfile) *)
UnlockMtabStat(p) ==
    /\ pc[p] = "u_enter" /\ ~ml[p].simplelock
    /\ SetMl(p, [ml[p] EXCEPT !.locked = @ \/ OwnsByStat(p)])
    /\ linkino' = [linkino EXCEPT ![p] = NoIno]
    /\ pc' = [pc EXCEPT ![p] = "u_close"]
    /\ UNCHANGED <<rc, infail, exiting, elapsed, procmask, maskBefore,
                   blockAtLock, files, owner, flk, flockOn>>
    /\ UNCHANGED <<testVars, histVars, tabVars, libVars>>

(* faulty variant: the lockfile is unlinked whoever owns it *)
OwnsLockfileAlways(r) == TRUE
(* if (ml->locked && ml->lockfile): the lockfile is ours to unlink *)
OwnsLockfile(r) == r.locked

(* unlock_mtab: close(ml->lockfile_fd); a handle that is not locked has
   nothing to unlink and mnt_unlock_file finishes *)
UnlockMtabClose(p) ==
    /\ pc[p] = "u_close"
    /\ CloseFd(p)
    /\ IF OwnsLockfile(ml[p])
       THEN /\ pc' = [pc EXCEPT ![p] = "u_unlink"]
            /\ UNCHANGED <<ml, procmask, infail, elapsed, cycles>>
       ELSE UnlockFinish(p)
    /\ UNCHANGED <<rc, exiting, maskBefore, blockAtLock, files,
                   owner, linkino>>
    /\ UNCHANGED <<testVars, timeouts, newArgs, tabVars, libVars>>

(* unlock_mtab: if (ml->locked && ml->lockfile) unlink(ml->lockfile) *)
UnlockMtabUnlink(p) ==
    /\ pc[p] = "u_unlink"
    /\ files' = [files EXCEPT ![ml[p].lockfile] = NoIno]
    /\ owner' = [owner EXCEPT ![ml[p].lockfile] = 0]
    /\ UnlockFinish(p)
    /\ UNCHANGED <<rc, exiting, maskBefore, blockAtLock, linkino,
                   flk, flockOn>>
    /\ UNCHANGED <<testVars, timeouts, newArgs, tabVars, libVars>>

(* ------------------------------------------------------------------ *)
(* mnt_lock_file, simple-lock protocol (lock_simplelock)               *)
(* ------------------------------------------------------------------ *)
(* err: restore the mask, return rc (mnt_unlock_file is not called) *)
SimpleErr(p, code) ==
    /\ rc' = [rc EXCEPT ![p] = code]
    /\ pc' = [pc EXCEPT ![p] = "ret_lock"]

(* block every signal; open(lfile, O_RDONLY|O_CREAT|O_CLOEXEC, 0644) *)
SimpleOpen(p) ==
    /\ pc[p] = "call_lock" /\ ml[p].simplelock
    /\ BlockSignals(p, BlockSetSimple)
    /\ LET ino == IF files[ml[p].lockfile] # NoIno
                  THEN files[ml[p].lockfile] ELSE FreshIno(p) IN
       /\ files' = [files EXCEPT ![ml[p].lockfile] = ino]
       /\ SetMl(p, [ml[p] EXCEPT !.oldsigmask = SavedMask(p),
                                 !.lockfile_fd = ino])
    /\ pc' = [pc EXCEPT ![p] = "s_stat"]
    /\ UNCHANGED <<rc, infail, exiting, elapsed, owner, linkino, flk, flockOn>>
    /\ UNCHANGED <<testVars, histVars, tabVars, libVars>>

(* open() fails: ml->lockfile_fd = -1, rc = -errno, goto err *)
SimpleOpenFails(p) ==
    /\ pc[p] = "call_lock" /\ ml[p].simplelock
    /\ maskBefore' = [maskBefore EXCEPT ![p] = procmask[p]]
    /\ blockAtLock' = [blockAtLock EXCEPT ![p] = ProtocolBlocking(p)]
    /\ SetMl(p, [ml[p] EXCEPT !.oldsigmask = SavedMask(p),
                              !.lockfile_fd = NoFd])
    /\ SimpleErr(p, -EROFS)
    /\ UNCHANGED <<procmask, infail, exiting, elapsed, files, owner, linkino,
                   flk, flockOn>>
    /\ UNCHANGED <<testVars, histVars, tabVars, libVars>>

(* fstat() and, when the mode lacks 0644, fchmod() succeed *)
SimpleStat(p) ==
    /\ pc[p] = "s_stat"
    /\ pc' = [pc EXCEPT ![p] = "s_flock"]
    /\ UNCHANGED <<ml, rc, infail, exiting, elapsed, procmask, maskBefore,
                   blockAtLock, files, owner, linkino, flk, flockOn>>
    /\ UNCHANGED <<testVars, histVars, tabVars, libVars>>

(* fstat() or fchmod() fails: goto err with the descriptor left open *)
SimpleStatFails(p) ==
    /\ pc[p] = "s_stat"
    /\ SimpleErr(p, -EIO)
    /\ procmask' = [procmask EXCEPT ![p] = RestoredMask(p)]
    /\ UNCHANGED <<ml, infail, exiting, elapsed, maskBefore, blockAtLock,
                   files, owner, linkino, flk, flockOn>>
    /\ UNCHANGED <<testVars, histVars, tabVars, libVars>>

(* flock(fd, LOCK_EX) returns once no other process holds the lock;
   EAGAIN and EINTR are retried *)
SimpleFlock(p) ==
    /\ pc[p] = "s_flock"
    /\ \A q \in Procs \ {p} : flockOn[q] # ml[p].lockfile_fd
    /\ flockOn' = [flockOn EXCEPT ![p] = ml[p].lockfile_fd]
    /\ SetMl(p, [ml[p] EXCEPT !.locked = TRUE])
    /\ rc' = [rc EXCEPT ![p] = 0]
    /\ pc' = [pc EXCEPT ![p] = "ret_lock"]
    /\ UNCHANGED <<infail, exiting, elapsed, procmask, maskBefore,
                   blockAtLock, files, owner, linkino, flk>>
    /\ UNCHANGED <<testVars, histVars, tabVars, libVars>>

(* flock() fails with another errno: close, lockfile_fd = -1, goto err *)
SimpleFlockFails(p) ==
    /\ pc[p] = "s_flock"
    /\ SetMl(p, [ml[p] EXCEPT !.lockfile_fd = NoFd])
    /\ SimpleErr(p, -ENOLCK)
    /\ procmask' = [procmask EXCEPT ![p] = RestoredMask(p)]
    /\ UNCHANGED <<infail, exiting, elapsed, maskBefore, blockAtLock, files,
                   owner, linkino, flk, flockOn>>
    /\ UNCHANGED <<testVars, histVars, tabVars, libVars>>

(* ------------------------------------------------------------------ *)
(* Reference counting and the handle's switches                        *)
(* ------------------------------------------------------------------ *)
mnt_ref_lock(r) == [r EXCEPT !.refcount = @ + 1]

(* mnt_free_lock: the handle's memory is gone *)
mnt_free_lock(r) == [NoLock EXCEPT !.refcount = r.refcount]

(* faulty variant: frees while one reference is left *)
UnrefFreesEarly(r) ==
    LET d == [r EXCEPT !.refcount = @ - 1] IN
    IF d.refcount <= 1 THEN mnt_free_lock(d) ELSE d

mnt_unref_lock(r) ==
    LET d == [r EXCEPT !.refcount = @ - 1] IN
    IF d.refcount <= 0 THEN mnt_free_lock(d) ELSE d

mnt_lock_block_signals(r, enable) == [r EXCEPT !.sigblock = enable]

Replace(s, n, sx) == SubSeq(s, 1, Len(s) - n) \o sx

(* faulty variant: the suffix is rewritten without testing it *)
UseSimplelockNoCheck(r, enable) ==
    LET f == r.lockfile IN
    [r EXCEPT !.simplelock = enable,
              !.lockfile =
                  IF enable THEN Replace(f, 1, <<".", "l", "o", "c", "k">>)
                  ELSE Replace(f, 5, <<"~">>)]

mnt_lock_use_simplelock(r, enable) ==
    LET f == r.lockfile IN
    [r EXCEPT !.simplelock = enable,
              !.lockfile =
                  IF enable /\ endswith(f, <<"~">>)
                  THEN Replace(f, 1, <<".", "l", "o", "c", "k">>)
                  ELSE IF ~enable /\ endswith(f, <<".", "l", "o", "c", "k">>)
                  THEN Replace(f, 5, <<"~">>)
                  ELSE f]

(* ------------------------------------------------------------------ *)
(* test_lock: the updater of the lock test program                     *)
(* ------------------------------------------------------------------ *)
NoArgs == [datafile |-> <<>>, id |-> 0]

(* a lockfile on disk whose maker was killed *)
Stale ==
    \E x \in AllPaths :
        files[x] # NoIno /\ owner[x] \in Procs /\ pc[owner[x]] = "killed"

(* for (l = 0; l < loops; l++) { lock = mnt_new_lock(datafile, 0); ... }
   and, after the loop, return 0: clean_lock finds lock == NULL *)
TestLoop(p) ==
    /\ pc[p] = "t_loop"
    /\ IF loopno[p] < Loops
       THEN /\ SetMl(p, mnt_new_lock(DataFile, 0, Pid(p)))
            /\ newArgs' = [newArgs EXCEPT ![p] = [datafile |-> DataFile, id |-> 0]]
            /\ cycles' = [cycles EXCEPT ![p] = 0]
            /\ blockAtLock' = [blockAtLock EXCEPT ![p] = "none"]
            /\ pc' = [pc EXCEPT ![p] = "call_lock"]
       ELSE /\ pc' = [pc EXCEPT ![p] = "done"]
            /\ UNCHANGED <<ml, newArgs, cycles, blockAtLock>>
    /\ UNCHANGED <<rc, infail, exiting, elapsed, procmask, maskBefore,
                   files, owner, linkino, flk, flockOn>>
    /\ UNCHANGED <<testVars, timeouts, tabVars, libVars>>

(* a signal arrives before mnt_lock_file is called: sig_handler calls
   errx(), and exit() runs clean_lock on the handle that was never locked *)
TestSignalBeforeLock(p) ==
    /\ pc[p] = "call_lock"
    /\ exiting' = [exiting EXCEPT ![p] = TRUE]
    /\ pc' = [pc EXCEPT ![p] = "u_enter"]
    /\ UNCHANGED <<ml, rc, infail, elapsed, procmask, maskBefore,
                   blockAtLock, files, owner, linkino, flk, flockOn>>
    /\ UNCHANGED <<testVars, histVars, tabVars, libVars>>

(* if (mnt_lock_file(lock) != 0) return -1, and exit() runs clean_lock:
   mnt_unlock_file(lock); mnt_unref_lock(lock) *)
TestLocked(p) ==
    /\ pc[p] = "ret_lock"
    /\ IF rc[p] = 0
       THEN /\ pc' = [pc EXCEPT ![p] = "incr_read"]
            /\ UNCHANGED exiting
       ELSE /\ pc' = [pc EXCEPT ![p] = "u_enter"]
            /\ exiting' = [exiting EXCEPT ![p] = TRUE]
    /\ timeouts' = [timeouts EXCEPT ![p] =
                      IF rc[p] = -ETIMEDOUT /\ Stale
                      THEN Min(MaxTimeouts, @ + 1) ELSE @]
    /\ UNCHANGED <<ml, rc, infail, elapsed, procmask, maskBefore,
                   blockAtLock, files, owner, linkino, flk, flockOn>>
    /\ UNCHANGED <<testVars, cycles, newArgs, tabVars, libVars>>

(* increment_data: fgets(buf), num = atol(buf) + 1 *)
IncrRead(p) ==
    /\ pc[p] = "incr_read"
    /\ num' = [num EXCEPT ![p] = counter + 1]
    /\ pc' = [pc EXCEPT ![p] = "incr_write"]
    /\ UNCHANGED <<handleVarsNoPc, loopno, counter, done, histVars, tabVars, libVars>>

(* increment_data: fprintf(f, "%ld", num); then mnt_unlock_file(lock) *)
IncrWrite(p) ==
    /\ pc[p] = "incr_write"
    /\ counter' = num[p]
    /\ num' = [num EXCEPT ![p] = 0]
    /\ done' = [done EXCEPT ![p] = @ + 1]
    /\ pc' = [pc EXCEPT ![p] = "u_enter"]
    /\ UNCHANGED <<handleVarsNoPc, loopno, histVars, tabVars, libVars>>

(* mnt_unref_lock(lock); lock = NULL; the next iteration, or the exit *)
TestUnlocked(p) ==
    /\ pc[p] = "ret_unlock"
    /\ SetMl(p, mnt_unref_lock(ml[p]))
    /\ IF exiting[p]
       THEN /\ pc' = [pc EXCEPT ![p] = "done"]
            /\ UNCHANGED loopno
       ELSE /\ pc' = [pc EXCEPT ![p] = "t_loop"]
            /\ loopno' = [loopno EXCEPT ![p] = @ + 1]
    /\ UNCHANGED <<rc, infail, exiting, elapsed, procmask, maskBefore,
                   blockAtLock, files, owner, linkino, flk, flockOn>>
    /\ UNCHANGED <<num, counter, done, histVars, tabVars, libVars>>

(* the steps of mnt_lock_file and mnt_unlock_file in hard-link mode *)
MtabStep(p) ==
    \/ LockMtabEnter(p)
    \/ TryLink(p)
    \/ OpenLockfile(p)
    \/ ClaimLock(p)
    \/ WaitAcquire(p)
    \/ WaitAlarm(p)
    \/ SleepClose(p)
    \/ UnlockMtabStat(p)
    \/ UnlockMtabClose(p)
    \/ UnlockMtabUnlink(p)

TestStep(p) ==
    \/ TestLoop(p)
    \/ TestSignalBeforeLock(p)
    \/ TestLocked(p)
    \/ IncrRead(p)
    \/ IncrWrite(p)
    \/ TestUnlocked(p)

InitHandles ==
    /\ ml = [p \in Procs |-> NoLock]
    /\ rc = [p \in Procs |-> 0]
    /\ infail = [p \in Procs |-> FALSE]
    /\ exiting = [p \in Procs |-> FALSE]
    /\ elapsed = [p \in Procs |-> 0]
    /\ maskBefore = [p \in Procs |-> {}]
    /\ blockAtLock = [p \in Procs |-> "none"]
    /\ owner = [x \in AllPaths |-> 0]
    /\ linkino = [p \in Procs |-> NoIno]
    /\ flk = [p \in Procs |-> NoIno]
    /\ flockOn = [p \in Procs |-> NoIno]
    /\ cycles = [p \in Procs |-> 0]
    /\ timeouts = [p \in Procs |-> 0]
    /\ newArgs = [p \in Procs |-> NoArgs]

InitTest ==
    /\ loopno = [p \in Procs |-> 0]
    /\ num = [p \in Procs |-> 0]
    /\ counter = 0
    /\ done = [p \in Procs |-> 0]

(* a C string is a sequence of characters; a pointer to one is <<>> for
   NULL or <<s>> *)
NULL == <<>>

Str(ptr) == ptr[1]

(* MNT_ITER_INIT has not run: itr->head is NULL *)
InitIter ==
    /\ tb_cache = FALSE
    /\ itr = [p |-> 0, head |-> FALSE, direction |-> MNT_ITER_FORWARD]
    /\ itr_rc = 0
    /\ seen = <<>>
    /\ find = [path |-> NULL, direction |-> MNT_ITER_FORWARD, res |-> 0]

(* calloc() in mnt_new_fs: every field is zero *)
NewEnt == [source |-> NULL, tagname |-> NULL, tagval |-> NULL,
           fstype |-> NULL, flags |-> {}]

InitUm == um = [s |-> <<>>, out |-> <<>>, called |-> FALSE]

(* no mnt_tab_set_iter yet *)
InitSit == sit = [fs |-> 0, called |-> FALSE, rc |-> 0, res |-> 0]

(* no child loop yet *)
InitKid == kid = [parent |-> 0, got |-> <<>>, rc |-> 0, calls |-> 0]

(* no mnt_tab_find_srcpath yet; pass is the pass that returned the entry *)
InitFindSrc ==
    find_src = [path |-> NULL, direction |-> MNT_ITER_FORWARD, res |-> 0,
                pass |-> 0]

(* calloc() in mnt_new_fs: every field is zero *)
InitKin ==
    /\ fs_id = [f \in 1..MaxFs |-> 0]
    /\ fs_parent = [f \in 1..MaxFs |-> 0]
    /\ fs_rec = [f \in 1..MaxFs |-> NewEnt]
    /\ InitFindSrc
    /\ InitSit
    /\ InitKid

InitEnt ==
    /\ ent = NewEnt
    /\ ent_call = [fn |-> "mnt_new_fs", arg |-> NULL, rc |-> 0]
    /\ InitUm
    /\ InitKin

InitRt == rt = [orig |-> NULL, name |-> <<>>, value |-> NULL, stage |-> "none",
                rc |-> 0]

InitOpt ==
    /\ optstr = NULL
    /\ opt_call = [op |-> "none", rc |-> 0]
    /\ InitRt

InitMerge == mg = [vfs |-> NULL, fs |-> NULL, oom |-> FALSE, res |-> NULL,
                   called |-> FALSE]

InitPn == pn = [str |-> <<>>, cursor |-> 1, from |-> 1, called |-> FALSE,
                res |-> [rc |-> 1, name |-> 0, namesz |-> 0, value |-> 0,
                         valsz |-> 0, next |-> 0]]

InitTabList ==
    /\ tb_ents = <<>>
    /\ tb_nents = 0
    /\ fs_state = [f \in 1..MaxFs |-> "free"]
    /\ fs_target = [f \in 1..MaxFs |-> NULL]
    /\ parse_rc = 0
    /\ parse_call = [lines |-> <<>>, newline |-> TRUE, errcb |-> <<>>,
                     called |-> FALSE]

InitTab ==
    /\ InitTabList
    /\ InitIter
    /\ InitEnt
    /\ InitOpt
    /\ InitMerge
    /\ InitPn

(* N updaters started together on one data file with no lockfile *)
Init ==
    /\ InitHandles
    /\ pc = [p \in Procs |-> "t_loop"]
    /\ procmask = [p \in Procs |-> {}]
    /\ files = [x \in AllPaths |-> NoIno]
    /\ InitTest
    /\ InitTab

Step(p) == MtabStep(p) \/ TestStep(p)

Next ==
    \/ \E p \in Procs : Step(p)
    \/ Tick

Spec == Init /\ [][Next]_vars

(* every updater is about to start its last iteration: the state after the
   updaters have run their earlier iterations one after another *)
InitLast ==
    /\ InitHandles
    /\ pc = [p \in Procs |-> "t_loop"]
    /\ procmask = [p \in Procs |-> {}]
    /\ files = [x \in AllPaths |-> NoIno]
    /\ loopno = [p \in Procs |-> Loops - 1]
    /\ num = [p \in Procs |-> 0]
    /\ counter = NProcs * (Loops - 1)
    /\ done = [p \in Procs |-> Loops - 1]
    /\ InitTab

(* the scheduler runs every process again and again, and time passes *)
FairSpec ==
    InitLast /\ [][Next]_vars /\ WF_vars(Tick) /\ \A p \in Procs : WF_vars(Step(p))

(* ------------------------------------------------------------------ *)
(* Updaters that can be killed while they hold the lock                *)
(* ------------------------------------------------------------------ *)
(* SIGKILL while the updater holds the lock: no handler, no exit(), the
   kernel closes the descriptors and drops the locks; the lockfile stays *)
Kill(p) ==
    /\ pc[p] \in {"incr_read", "incr_write"}
    /\ pc' = [pc EXCEPT ![p] = "killed"]
    /\ SetMl(p, NoLock)
    /\ flk' = [flk EXCEPT ![p] = NoIno]
    /\ flockOn' = [flockOn EXCEPT ![p] = NoIno]
    /\ num' = [num EXCEPT ![p] = 0]
    /\ UNCHANGED <<rc, infail, exiting, elapsed, procmask, maskBefore,
                   blockAtLock, files, owner, linkino>>
    /\ UNCHANGED <<loopno, counter, done, histVars, tabVars, libVars>>

(* an updater that exited before it completed its iterations is started
   again, for the iterations that are left *)
Retry(p) ==
    /\ pc[p] = "done" /\ done[p] < Loops
    /\ pc' = [pc EXCEPT ![p] = "t_loop"]
    /\ exiting' = [exiting EXCEPT ![p] = FALSE]
    /\ rc' = [rc EXCEPT ![p] = 0]
    /\ UNCHANGED <<ml, infail, elapsed, procmask, maskBefore, blockAtLock,
                   files, owner, linkino, flk, flockOn>>
    /\ UNCHANGED <<testVars, histVars, tabVars, libVars>>

NextKill ==
    \/ \E p \in Procs : Step(p) \/ Kill(p) \/ Retry(p)
    \/ Tick

SpecKill == InitLast /\ [][NextKill]_vars

(* live updaters keep running and keep being restarted; nothing obliges
   the environment to kill anybody *)
FairSpecKill ==
    SpecKill /\ WF_vars(Tick) /\ \A p \in Procs : WF_vars(Step(p) \/ Retry(p))

(* ------------------------------------------------------------------ *)
(* Updaters that catch a signal inside mnt_lock_file                   *)
(* ------------------------------------------------------------------ *)
(* test_lock installs sig_handler for every signal; it calls errx(), and
   exit() runs clean_lock: mnt_unlock_file(lock) on the handle as the
   interrupted lock_mtab left it.  A signal the process has blocked is not
   delivered. *)
Deliverable(p) == Signals \ procmask[p] # {}

(* the signal arrives between two system calls of lock_mtab *)
TestSignalInLock(p) ==
    /\ InLockMtab(p)
    /\ Deliverable(p)
    /\ exiting' = [exiting EXCEPT ![p] = TRUE]
    /\ pc' = [pc EXCEPT ![p] = "u_enter"]
    /\ UNCHANGED <<ml, rc, infail, elapsed, procmask, maskBefore,
                   blockAtLock, files, owner, linkino, flk, flockOn>>
    /\ UNCHANGED <<testVars, histVars, tabVars, libVars>>

(* j = link(linkfile, lockfile) succeeds and the signal arrives before
   if (j == 0) ml->locked = 1 has run *)
LinkThenSignal(p) ==
    /\ pc[p] = "l_link"
    /\ LinkResult(p) = "OK"
    /\ Deliverable(p)
    /\ files' = [files EXCEPT ![ml[p].lockfile] = linkino[p]]
    /\ owner' = [owner EXCEPT ![ml[p].lockfile] = p]
    /\ exiting' = [exiting EXCEPT ![p] = TRUE]
    /\ pc' = [pc EXCEPT ![p] = "u_enter"]
    /\ UNCHANGED <<ml, rc, infail, elapsed, procmask, maskBefore,
                   blockAtLock, linkino, flk, flockOn>>
    /\ UNCHANGED <<testVars, histVars, tabVars, libVars>>

NextSignal ==
    \/ \E p \in Procs : Step(p)
    \/ \E p \in Procs : TestSignalInLock(p)
    \/ \E p \in Procs : LinkThenSignal(p)
    \/ Tick

SpecSignal == InitLast /\ [][NextSignal]_vars

(* ------------------------------------------------------------------ *)
(* One application driving one handle through the lock API             *)
(* ------------------------------------------------------------------ *)
Callers == {1}

(* signal masks the application may have when it starts *)
MaskChoices == { {}, {"SIGINT"}, {"SIGTERM", "SIGTRAP"} }

(* ml = mnt_new_lock(datafile, id) *)
ApiNew(p, D, id) ==
    /\ pc[p] = "api" /\ ~ml[p].alive
    /\ SetMl(p, mnt_new_lock(D, id, Pid(p)))
    /\ newArgs' = [newArgs EXCEPT ![p] = [datafile |-> D, id |-> id]]
    /\ cycles' = [cycles EXCEPT ![p] = 0]
    /\ blockAtLock' = [blockAtLock EXCEPT ![p] = "none"]
    /\ UNCHANGED <<pc, rc, infail, exiting, elapsed, procmask, maskBefore,
                   files, owner, linkino, flk, flockOn>>
    /\ UNCHANGED <<testVars, timeouts, tabVars, libVars>>

ApiRef(p) ==
    /\ pc[p] = "api" /\ ml[p].alive /\ ml[p].refcount < MaxRef
    /\ SetMl(p, mnt_ref_lock(ml[p]))
    /\ UNCHANGED <<pc, rc, infail, exiting, elapsed, procmask, maskBefore,
                   blockAtLock, files, owner, linkino, flk, flockOn>>
    /\ UNCHANGED <<testVars, histVars, tabVars, libVars>>

ApiUnref(p) ==
    /\ pc[p] = "api" /\ ml[p].alive
    /\ SetMl(p, mnt_unref_lock(ml[p]))
    /\ UNCHANGED <<pc, rc, infail, exiting, elapsed, procmask, maskBefore,
                   blockAtLock, files, owner, linkino, flk, flockOn>>
    /\ UNCHANGED <<testVars, histVars, tabVars, libVars>>

ApiBlockSignals(p, enable) ==
    /\ pc[p] = "api" /\ ml[p].alive
    /\ SetMl(p, mnt_lock_block_signals(ml[p], enable))
    /\ UNCHANGED <<pc, rc, infail, exiting, elapsed, procmask, maskBefore,
                   blockAtLock, files, owner, linkino, flk, flockOn>>
    /\ UNCHANGED <<testVars, histVars, tabVars, libVars>>

(* the mode is switched on a handle that is not locked, as libmount does
   right after mnt_new_lock *)
ApiUseSimplelock(p, enable) ==
    /\ pc[p] = "api" /\ ml[p].alive /\ ~ml[p].locked
    /\ SetMl(p, mnt_lock_use_simplelock(ml[p], enable))
    /\ UNCHANGED <<pc, rc, infail, exiting, elapsed, procmask, maskBefore,
                   blockAtLock, files, owner, linkino, flk, flockOn>>
    /\ UNCHANGED <<testVars, histVars, tabVars, libVars>>

(* mnt_lock_file(ml); a handle locked in simple mode is not locked again *)
ApiLock(p) ==
    /\ pc[p] = "api" /\ ml[p].alive /\ ~(ml[p].simplelock /\ ml[p].locked)
    /\ pc' = [pc EXCEPT ![p] = "call_lock"]
    /\ UNCHANGED <<handleVarsNoPc, testVars, histVars, tabVars, libVars>>

(* mnt_unlock_file(ml), in whatever state the handle is *)
ApiUnlock(p) ==
    /\ pc[p] = "api" /\ ml[p].alive
    /\ pc' = [pc EXCEPT ![p] = "u_enter"]
    /\ UNCHANGED <<handleVarsNoPc, testVars, histVars, tabVars, libVars>>

(* mnt_lock_file or mnt_unlock_file has returned to the application *)
ApiReturn(p) ==
    /\ pc[p] \in {"ret_lock", "ret_unlock"}
    /\ pc' = [pc EXCEPT ![p] = "api"]
    /\ UNCHANGED <<handleVarsNoPc, testVars, histVars, tabVars, libVars>>

ApiStep(p) ==
    \/ ApiNew(p, DataFile, 0)
    \/ ApiRef(p)
    \/ ApiUnref(p)
    \/ \E e \in BOOLEAN : ApiBlockSignals(p, e)
    \/ \E e \in BOOLEAN : ApiUseSimplelock(p, e)
    \/ ApiLock(p)
    \/ ApiUnlock(p)
    \/ ApiReturn(p)

SimpleStep(p) ==
    \/ SimpleOpen(p)
    \/ SimpleOpenFails(p)
    \/ SimpleStat(p)
    \/ SimpleStatFails(p)
    \/ SimpleFlock(p)
    \/ SimpleFlockFails(p)
    \/ UnlockSimple(p)

(* the application has no handle yet; a lockfile left by somebody else may
   be on disk for the data file *)
InitHandle ==
    /\ InitHandles
    /\ pc = [p \in Procs |-> IF p \in Callers THEN "api" ELSE "off"]
    /\ procmask \in [Procs -> MaskChoices]
    /\ \A p \in Procs \ Callers : procmask[p] = {}
    /\ \E ino \in {NoIno, InoOf(0, 1)} :
          files = [x \in AllPaths |-> IF x = LockName(DataFile) THEN ino ELSE NoIno]
    /\ InitTest
    /\ InitTab

NextHandle ==
    \/ \E p \in Callers :
          \/ ApiStep(p)
          \/ MtabStep(p)
          \/ LockMtabAgain(p)
          \/ LinkfileCreateFails(p)
          \/ SimpleStep(p)
    \/ Tick

SpecHandle == InitHandle /\ [][NextHandle]_vars

(* ------------------------------------------------------------------ *)
(* A linkfile left under the handle's name                             *)
(* ------------------------------------------------------------------ *)
(* an earlier process with the same identifier was killed inside
   lock_mtab after it had created its linkfile *)
LeftLinkfile == InoOf(0, 2)

InitLeftover ==
    /\ ml = [p \in Procs |-> NoLock]
    /\ rc = [p \in Procs |-> 0]
    /\ infail = [p \in Procs |-> FALSE]
    /\ exiting = [p \in Procs |-> FALSE]
    /\ elapsed = [p \in Procs |-> 0]
    /\ maskBefore = [p \in Procs |-> {}]
    /\ blockAtLock = [p \in Procs |-> "none"]
    /\ owner = [x \in AllPaths |-> 0]
    /\ \E ino \in {NoIno, LeftLinkfile} :
          linkino = [p \in Procs |-> IF p \in Callers THEN ino ELSE NoIno]
    /\ flk = [p \in Procs |-> NoIno]
    /\ flockOn = [p \in Procs |-> NoIno]
    /\ cycles = [p \in Procs |-> 0]
    /\ timeouts = [p \in Procs |-> 0]
    /\ newArgs = [p \in Procs |-> NoArgs]
    /\ pc = [p \in Procs |-> IF p \in Callers THEN "api" ELSE "off"]
    /\ procmask = [p \in Procs |-> {}]
    /\ \E ino \in {NoIno, InoOf(0, 1)} :
          files = [x \in AllPaths |-> IF x = LockName(DataFile) THEN ino ELSE NoIno]
    /\ InitTest
    /\ InitTab

SpecLeftover == InitLeftover /\ [][NextHandle]_vars

(* ------------------------------------------------------------------ *)
(* An application whose signal handlers return                         *)
(* ------------------------------------------------------------------ *)
(* a signal the process has not blocked is delivered while fcntl(F_SETLKW)
   waits; its handler returns and the call is not restarted: fcntl fails
   with EINTR, mnt_wait_mtab_lock returns errno == EINTR ? 1 : -errno, and
   lock_mtab takes the 1 for the timeout *)
WaitInterrupted(p, sig) ==
    /\ pc[p] = "l_blocked"
    /\ sig \in Signals \ procmask[p]
    /\ GotoFailed(p, -ETIMEDOUT)
    /\ UNCHANGED <<ml, exiting, elapsed, procmask, maskBefore, blockAtLock,
                   files, owner, linkino, flk, flockOn>>
    /\ UNCHANGED <<testVars, histVars, tabVars, libVars>>

NextIntr ==
    \/ NextHandle
    \/ \E p \in Callers, sig \in Signals : WaitInterrupted(p, sig)

SpecIntr == InitHandle /\ [][NextIntr]_vars

(* ------------------------------------------------------------------ *)
(* Handles made for every data file and identifier, and their switches *)
(* ------------------------------------------------------------------ *)
InitNames ==
    /\ InitHandles
    /\ pc = [p \in Procs |-> IF p \in Callers THEN "api" ELSE "off"]
    /\ procmask = [p \in Procs |-> {}]
    /\ files = [x \in AllPaths |-> NoIno]
    /\ InitTest
    /\ InitTab

NextNames ==
    \E p \in Callers :
        \/ \E D \in DataFiles, id \in Ids : ApiNew(p, D, id)
        \/ \E e \in BOOLEAN : ApiUseSimplelock(p, e)
        \/ \E e \in BOOLEAN : ApiBlockSignals(p, e)
        \/ ApiRef(p)
        \/ ApiUnref(p)

SpecNames == InitNames /\ [][NextNames]_vars

(* ------------------------------------------------------------------ *)
(* The mount table: tab.c, fs.c, tab_parse.c                           *)
(* ------------------------------------------------------------------ *)
FsIds == 1..MaxFs

(* the lines of a stream: a well-formed entry, a malformed entry, or a
   blank or comment line *)
LineKinds == {"ok", "bad", "blank"}

Streams == UNION { [1..n -> LineKinds] : n \in 0..MaxLines }

(* tb->errcb: <<>> is no callback, <<v>> a callback that returns v *)
ErrCbs == { <<>>, <<-1>>, <<0>>, <<1>>, <<2>> }

Remove(seq, f) == SelectSeq(seq, LAMBDA x : x # f)

(* calloc() in mnt_new_fs: the lowest free entry, or none (NULL) *)
FreeFsIds(st) == {f \in FsIds : st[f] = "free"}

LowestFree(st) == CHOOSE f \in FreeFsIds(st) : \A g \in FreeFsIds(st) : f <= g

mnt_tab_get_nents == tb_nents

(* fs = mnt_new_fs() *)
NewFs ==
    /\ FreeFsIds(fs_state) # {}
    /\ fs_state' = [fs_state EXCEPT ![LowestFree(fs_state)] = "new"]
    /\ UNCHANGED <<tb_ents, tb_nents, parse_rc>>
    /\ UNCHANGED <<handleVars, testVars, histVars, libVars>>

(* mnt_tab_add_fs(tb, fs): list_add_tail, tb->nents++ *)
TabAddFs(f) ==
    /\ fs_state[f] = "new"
    /\ tb_nents < MaxNents
    /\ tb_ents' = Append(tb_ents, f)
    /\ tb_nents' = tb_nents + 1
    /\ fs_state' = [fs_state EXCEPT ![f] = "linked"]
    /\ UNCHANGED parse_rc
    /\ UNCHANGED <<handleVars, testVars, histVars, libVars>>

(* mnt_tab_remove_fs(tb, fs): list_del, tb->nents-- *)
TabRemoveFs(f) ==
    /\ fs_state[f] = "linked"
    /\ tb_ents' = Remove(tb_ents, f)
    /\ tb_nents' = tb_nents - 1
    /\ fs_state' = [fs_state EXCEPT ![f] = "new"]
    /\ UNCHANGED parse_rc
    /\ UNCHANGED <<handleVars, testVars, histVars, libVars>>

(* mnt_free_fs(fs): list_del(&fs->ents) and free(); tb->nents is not touched *)
FreeFs(f) ==
    /\ fs_state[f] # "free"
    /\ tb_ents' = Remove(tb_ents, f)
    /\ fs_state' = [fs_state EXCEPT ![f] = "free"]
    /\ fs_target' = [fs_target EXCEPT ![f] = NULL]
    /\ UNCHANGED <<tb_nents, parse_rc, parse_call>>
    /\ UNCHANGED <<handleVars, testVars, histVars, iterVars, entVars, optVars>>

(* mnt_tab_parse_next: skip blank lines; fgets() == NULL returns -EINVAL;
   a line without the final newline sets feof; a parse error returns the
   callback's value, or 1 *)
RECURSIVE mnt_tab_parse_next(_, _, _, _)
mnt_tab_parse_next(lines, newline, errcb, pos) ==
    IF pos >= Len(lines)
    THEN [rc |-> -EINVAL, pos |-> pos, eof |-> TRUE]
    ELSE LET eof == (pos + 1 = Len(lines)) /\ ~newline
             kind == lines[pos + 1]
         IN  IF kind = "blank"
             THEN mnt_tab_parse_next(lines, newline, errcb, pos + 1)
             ELSE IF kind = "ok"
             THEN [rc |-> 0, pos |-> pos + 1, eof |-> eof]
             ELSE [rc |-> IF errcb = <<>> THEN 1 ELSE errcb[1],
                   pos |-> pos + 1, eof |-> eof]

(* the while (!feof(f)) loop of mnt_tab_parse_stream; t is the table, the
   entries' state, the stream position, feof and rc *)
RECURSIVE ParseLoop(_, _, _, _)
ParseLoop(lines, newline, errcb, t) ==
    IF t.eof THEN [t EXCEPT !.rc = 0]
    ELSE IF FreeFsIds(t.st) = {} THEN t
    ELSE LET f == LowestFree(t.st)
             r == mnt_tab_parse_next(lines, newline, errcb, t.pos)
         IN  IF r.rc = 0
             THEN ParseLoop(lines, newline, errcb,
                            [ents |-> Append(t.ents, f), nents |-> t.nents + 1,
                             st |-> [t.st EXCEPT ![f] = "linked"],
                             pos |-> r.pos, eof |-> r.eof, rc |-> 0])
             ELSE LET u == [t EXCEPT !.pos = r.pos, !.eof = r.eof, !.rc = r.rc]
                  IN  IF r.rc = 1 THEN ParseLoop(lines, newline, errcb, u)
                      ELSE IF r.eof THEN [u EXCEPT !.rc = 0]
                      ELSE u

(* the while loop of mnt_tab_parse_stream run on the table *)
ParseInto(lines, newline, errcb) ==
    /\ tb_nents + Len(lines) <= MaxNents
    /\ LET t == ParseLoop(lines, newline, errcb,
                          [ents |-> tb_ents, nents |-> tb_nents, st |-> fs_state,
                           pos |-> 0, eof |-> FALSE, rc |-> -1])
       IN  /\ tb_ents' = t.ents
           /\ tb_nents' = t.nents
           /\ fs_state' = t.st
           /\ parse_rc' = t.rc

(* rc = mnt_tab_parse_stream(tb, f, filename) *)
ParseStream(lines, newline, errcb) ==
    /\ ParseInto(lines, newline, errcb)
    /\ UNCHANGED <<handleVars, testVars, histVars, libVars>>

(* an empty table made by mnt_new_tab; nobody uses the lock *)
InitTabOnly ==
    /\ InitHandles
    /\ pc = [p \in Procs |-> "off"]
    /\ procmask = [p \in Procs |-> {}]
    /\ files = [x \in AllPaths |-> NoIno]
    /\ InitTest
    /\ InitTab

NextTab ==
    \/ NewFs
    \/ \E f \in FsIds : TabAddFs(f)
    \/ \E f \in FsIds : TabRemoveFs(f)
    \/ \E f \in FsIds : FreeFs(f)
    \/ \E lines \in Streams, newline \in BOOLEAN, errcb \in ErrCbs :
          ParseStream(lines, newline, errcb)

SpecTab == InitTabOnly /\ [][NextTab]_vars

(* ------------------------------------------------------------------ *)
(* One parse of a stream into an empty table                           *)
(* ------------------------------------------------------------------ *)
(* the stream and the callback of the parse that is about to be made *)
InitParse ==
    /\ InitHandles
    /\ pc = [p \in Procs |-> "off"]
    /\ procmask = [p \in Procs |-> {}]
    /\ files = [x \in AllPaths |-> NoIno]
    /\ InitTest
    /\ tb_ents = <<>>
    /\ tb_nents = 0
    /\ fs_state = [f \in 1..MaxFs |-> "free"]
    /\ fs_target = [f \in 1..MaxFs |-> NULL]
    /\ parse_rc = 0
    /\ \E lines \in Streams, newline \in BOOLEAN, errcb \in ErrCbs :
          parse_call = [lines |-> lines, newline |-> newline, errcb |-> errcb,
                        called |-> FALSE]
    /\ InitIter /\ InitEnt /\ InitOpt /\ InitMerge /\ InitPn

(* mnt_tab_set_parser_errcb(tb, cb); rc = mnt_tab_parse_stream(tb, f, ..) *)
ParseInput ==
    /\ ~parse_call.called
    /\ ParseInto(parse_call.lines, parse_call.newline, parse_call.errcb)
    /\ parse_call' = [parse_call EXCEPT !.called = TRUE]
    /\ UNCHANGED <<handleVars, testVars, histVars>>
    /\ UNCHANGED <<fs_target, iterVars, entVars, optVars>>

SpecParse == InitParse /\ [][ParseInput]_vars

(* ------------------------------------------------------------------ *)
(* Iterators over the table: mountP.h, tab.c                           *)
(* ------------------------------------------------------------------ *)
Directions == {MNT_ITER_FORWARD, MNT_ITER_BACKWARD}

IS_ITER_FORWARD(it) == it.direction = MNT_ITER_FORWARD

(* A position in the circular list: 0 is the list head &tb->ents, i the
   i-th entry of a list of n entries *)
ListNext(pos, n) == IF pos = n THEN 0 ELSE pos + 1

ListPrev(pos, n) == IF pos = 0 THEN n ELSE pos - 1

(* p = forward ? list->next : list->prev; head = list *)
MNT_ITER_INIT(it, n) ==
    [it EXCEPT !.p = IF IS_ITER_FORWARD(it) THEN ListNext(0, n)
                     ELSE ListPrev(0, n),
               !.head = TRUE]

(* faulty variant: the walk follows ->next whatever the direction *)
IterateForwardOnly(it, n) == [it EXCEPT !.p = ListNext(it.p, n)]

(* res = list_entry(p); p = forward ? p->next : p->prev *)
MNT_ITER_ITERATE(it, n) ==
    [it EXCEPT !.p = IF IS_ITER_FORWARD(it) THEN ListNext(it.p, n)
                     ELSE ListPrev(it.p, n)]

(* reset(direction) primes the iterator for a fresh walk *)
mnt_reset_iter(direction) ==
    [p |-> 0, head |-> FALSE, direction |-> direction]

(* rc = mnt_tab_next_fs(tb, itr, &fs); fs = 0 stands for *fs = NULL *)
mnt_tab_next_fs(ents, it) ==
    LET i == IF ~it.head THEN MNT_ITER_INIT(it, Len(ents)) ELSE it
    IN  IF i.p # 0
        THEN [itr |-> MNT_ITER_ITERATE(i, Len(ents)), fs |-> ents[i.p], rc |-> 0]
        ELSE [itr |-> i, fs |-> 0, rc |-> 1]

(* the caller resets its iterator *)
ResetIter(direction) ==
    /\ itr' = mnt_reset_iter(direction)
    /\ itr_rc' = 0
    /\ seen' = <<>>
    /\ UNCHANGED <<tb_cache, find>>
    /\ UNCHANGED <<handleVars, testVars, histVars, tabVars>>
    /\ UNCHANGED <<parse_call, fs_target, entVars, optVars>>

(* the caller asks for the next entry *)
TabNextFs ==
    /\ LET r == mnt_tab_next_fs(tb_ents, itr)
       IN  /\ itr' = r.itr
           /\ itr_rc' = r.rc
           /\ seen' = IF r.rc = 0 THEN Append(seen, r.fs) ELSE seen
    /\ UNCHANGED <<tb_cache, find>>
    /\ UNCHANGED <<handleVars, testVars, histVars, tabVars>>
    /\ UNCHANGED <<parse_call, fs_target, entVars, optVars>>

(* the table changes only between walks: all call sites finish iterating
   before they mutate *)
NextIter ==
    \/ /\ ~itr.head
       /\ \/ NewFs
          \/ \E f \in FsIds : TabAddFs(f)
          \/ \E f \in FsIds : TabRemoveFs(f)
          \/ \E f \in FsIds : FreeFs(f)
    \/ \E d \in Directions : ResetIter(d)
    \/ TabNextFs

SpecIter == InitTabOnly /\ [][NextIter]_vars

(* ------------------------------------------------------------------ *)
(* Setting the iterator to an entry: tab.c                             *)
(* ------------------------------------------------------------------ *)
(* the position of entry f in the list *)
PosOf(ents, f) == CHOOSE i \in 1..Len(ents) : ents[i] = f

InTable(ents, f) == \E i \in 1..Len(ents) : ents[i] = f

(* faulty variant: itr->p is moved on to the entry that follows *)
SetIterPast(ents, it, f) ==
    MNT_ITER_ITERATE([MNT_ITER_INIT(it, Len(ents)) EXCEPT !.p = PosOf(ents, f)],
                     Len(ents))

(* MNT_ITER_INIT(itr, &tb->ents); itr->p = &fs->ents *)
mnt_tab_set_iter(ents, it, f) ==
    [MNT_ITER_INIT(it, Len(ents)) EXCEPT !.p = PosOf(ents, f)]

(* the tables of distinct entries, in every order they can be added *)
Tables ==
    { t \in UNION { [1..n -> FsIds] : n \in 0..MaxFs } :
        \A i, j \in 1..Len(t) : i # j => t[i] # t[j] }

(* mnt_new_fs and mnt_tab_add_fs have built the table t *)
InitTable(t) ==
    /\ tb_ents = t
    /\ tb_nents = Len(t)
    /\ fs_state = [f \in 1..MaxFs |-> IF InTable(t, f) THEN "linked"
                                      ELSE "free"]
    /\ fs_target = [f \in 1..MaxFs |-> NULL]
    /\ parse_rc = 0
    /\ parse_call = [lines |-> <<>>, newline |-> TRUE, errcb |-> <<>>,
                     called |-> FALSE]

InitSetIter ==
    /\ InitHandles
    /\ pc = [p \in Procs |-> "off"]
    /\ procmask = [p \in Procs |-> {}]
    /\ files = [x \in AllPaths |-> NoIno]
    /\ InitTest
    /\ \E t \in Tables : InitTable(t)
    /\ InitIter /\ InitEnt /\ InitOpt /\ InitMerge /\ InitPn

(* mnt_reset_iter(itr, direction) *)
SetIterReset(direction) ==
    /\ itr' = mnt_reset_iter(direction)
    /\ itr_rc' = 0
    /\ seen' = <<>>
    /\ sit' = [fs |-> 0, called |-> FALSE, rc |-> 0, res |-> 0]
    /\ UNCHANGED <<tb_cache, find, idVars, kid, find_src>>
    /\ UNCHANGED <<handleVars, testVars, histVars, tabVars>>
    /\ UNCHANGED <<parse_call, fs_target, ent, ent_call, um, optVars>>

(* mnt_tab_set_iter(tb, itr, fs) with an entry of the table; the entries
   returned are counted anew from here *)
TabSetIter(f) ==
    /\ InTable(tb_ents, f)
    /\ itr' = mnt_tab_set_iter(tb_ents, itr, f)
    /\ seen' = <<>>
    /\ sit' = [fs |-> f, called |-> FALSE, rc |-> 0, res |-> 0]
    /\ UNCHANGED <<tb_cache, itr_rc, find, idVars, kid, find_src>>
    /\ UNCHANGED <<handleVars, testVars, histVars, tabVars>>
    /\ UNCHANGED <<parse_call, fs_target, ent, ent_call, um, optVars>>

(* mnt_tab_next_fs(tb, itr, &fs); the call that follows a
   mnt_tab_set_iter is recorded *)
SetIterNext ==
    /\ LET r == mnt_tab_next_fs(tb_ents, itr)
       IN  /\ itr' = r.itr
           /\ itr_rc' = r.rc
           /\ seen' = IF r.rc = 0 THEN Append(seen, r.fs) ELSE seen
           /\ sit' = IF sit.fs # 0 /\ ~sit.called
                     THEN [sit EXCEPT !.called = TRUE, !.rc = r.rc,
                                      !.res = r.fs]
                     ELSE [fs |-> 0, called |-> FALSE, rc |-> 0, res |-> 0]
    /\ UNCHANGED <<tb_cache, find, idVars, kid, find_src>>
    /\ UNCHANGED <<handleVars, testVars, histVars, tabVars>>
    /\ UNCHANGED <<parse_call, fs_target, ent, ent_call, um, optVars>>

NextSetIter ==
    \/ \E d \in Directions : SetIterReset(d)
    \/ \E f \in FsIds : TabSetIter(f)
    \/ SetIterNext

SpecSetIter == InitSetIter /\ [][NextSetIter]_vars

(* ------------------------------------------------------------------ *)
(* The children of one entry of a mountinfo table: tab.c               *)
(* ------------------------------------------------------------------ *)
(* the ids the kernel gave the mounts, and the ids of the two mounts that
   the others are mounted on *)
MountIds == 1..(MaxFs + 1)

ParentIds == 1..2

(* mnt_fs_get_id(fs), mnt_fs_get_parent_id(fs) *)
mnt_fs_get_id(ids, f) == ids[f]

mnt_fs_get_parent_id(parents, f) == parents[f]

(* faulty variant: the previously returned child is forgotten *)
LastChildIdNone(ents, it, ids) == 0

(* if (itr->head && itr->p != itr->head) lastchld_id = id of the entry at
   itr->p *)
LastChildId(ents, it, ids) ==
    IF it.head /\ it.p # 0 THEN mnt_fs_get_id(ids, ents[it.p]) ELSE 0

(* while (mnt_tab_next_fs(tb, itr, &fs) == 0): keep the child with the
   smallest id above lastchld_id; c is *chld (0 for NULL), cid is chld_id *)
RECURSIVE ChildWalk(_, _, _, _, _, _, _, _)
ChildWalk(ents, it, ids, parents, parent_id, lastchld_id, c, cid) ==
    LET r == mnt_tab_next_fs(ents, it)
    IN  IF r.rc # 0 THEN [itr |-> r.itr, chld |-> c, chld_id |-> cid]
        ELSE IF mnt_fs_get_parent_id(parents, r.fs) # parent_id
        THEN ChildWalk(ents, r.itr, ids, parents, parent_id, lastchld_id,
                       c, cid)
        ELSE IF /\ (lastchld_id = 0 \/ mnt_fs_get_id(ids, r.fs) > lastchld_id)
                /\ (c = 0 \/ mnt_fs_get_id(ids, r.fs) < cid)
        THEN ChildWalk(ents, r.itr, ids, parents, parent_id, lastchld_id,
                       r.fs, mnt_fs_get_id(ids, r.fs))
        ELSE ChildWalk(ents, r.itr, ids, parents, parent_id, lastchld_id,
                       c, cid)

(* rc = mnt_tab_next_child_fs(tb, itr, parent, &chld) *)
mnt_tab_next_child_fs(ents, it, ids, parents, parent) ==
    IF mnt_fs_get_id(ids, parent) = 0
    THEN [itr |-> it, chld |-> 0, rc |-> -EINVAL]
    ELSE LET w == ChildWalk(ents, mnt_reset_iter(MNT_ITER_FORWARD), ids,
                            parents, mnt_fs_get_id(ids, parent),
                            LastChildId(ents, it, ids), 0, 0)
         IN  IF w.chld_id = 0
             THEN [itr |-> w.itr, chld |-> 0, rc |-> 1]
             ELSE [itr |-> mnt_tab_set_iter(ents, w.itr, w.chld),
                   chld |-> w.chld, rc |-> 0]

(* a mountinfo table was parsed: every entry has its own id and is mounted
   on one of the two parents *)
InitChild ==
    /\ InitHandles
    /\ pc = [p \in Procs |-> "off"]
    /\ procmask = [p \in Procs |-> {}]
    /\ files = [x \in AllPaths |-> NoIno]
    /\ InitTest
    /\ \E n \in 0..MaxFs : InitTable([i \in 1..n |-> i])
    /\ InitIter /\ InitOpt /\ InitMerge /\ InitPn
    /\ ent = NewEnt
    /\ ent_call = [fn |-> "mnt_new_fs", arg |-> NULL, rc |-> 0]
    /\ InitUm /\ InitSit /\ InitKid /\ InitFindSrc
    /\ fs_rec = [f \in 1..MaxFs |-> NewEnt]
    /\ fs_id \in [1..MaxFs -> MountIds \cup {0}]
    /\ fs_parent \in [1..MaxFs -> ParentIds \cup {0}]
    /\ \A f \in 1..MaxFs :
          IF InTable(tb_ents, f)
          THEN /\ fs_id[f] # 0
               /\ fs_parent[f] # 0
               /\ \A g \in 1..MaxFs : (g # f /\ InTable(tb_ents, g))
                                          => fs_id[g] # fs_id[f]
          ELSE fs_id[f] = 0 /\ fs_parent[f] = 0

(* mnt_reset_iter(itr, direction) before a loop over the children of parent *)
ChildReset(parent, direction) ==
    /\ InTable(tb_ents, parent)
    /\ itr' = mnt_reset_iter(direction)
    /\ kid' = [parent |-> parent, got |-> <<>>, rc |-> 0, calls |-> 0]
    /\ UNCHANGED <<tb_cache, itr_rc, seen, find, idVars, sit, find_src>>
    /\ UNCHANGED <<handleVars, testVars, histVars, tabVars>>
    /\ UNCHANGED <<parse_call, fs_target, ent, ent_call, um, optVars>>

(* while (mnt_tab_next_child_fs(tb, itr, parent, &chld) == 0) *)
NextChildFs ==
    /\ kid.parent # 0
    /\ kid.rc = 0
    /\ kid.calls <= MaxFs
    /\ LET r == mnt_tab_next_child_fs(tb_ents, itr, fs_id, fs_parent,
                                      kid.parent)
       IN  /\ itr' = r.itr
           /\ kid' = [kid EXCEPT !.got = IF r.rc = 0 THEN Append(@, r.chld)
                                         ELSE @,
                                 !.rc = r.rc,
                                 !.calls = @ + 1]
    /\ UNCHANGED <<tb_cache, itr_rc, seen, find, idVars, sit, find_src>>
    /\ UNCHANGED <<handleVars, testVars, histVars, tabVars>>
    /\ UNCHANGED <<parse_call, fs_target, ent, ent_call, um, optVars>>

NextChild ==
    \/ \E parent \in FsIds, d \in Directions : ChildReset(parent, d)
    \/ NextChildFs

SpecChild == InitChild /\ [][NextChild]_vars

(* ------------------------------------------------------------------ *)
(* Lookup by target: tab.c, fs.c                                       *)
(* ------------------------------------------------------------------ *)
(* the targets given to entries and the paths looked up; /l is a symbolic
   link to /a *)
Targets == { <<"/", "a">>, <<"/", "a", "/">>, <<"/", "b">> }

Paths == { <<"/", "a">>, <<"/", "a", "/">>, <<"/", "l">> }

(* one trailing slash does not count *)
WithoutSlash(str) ==
    IF Len(str) > 0 /\ str[Len(str)] = "/" THEN SubSeq(str, 1, Len(str) - 1)
    ELSE str

(* target-equals: the comparison ignores a single trailing slash on both
   sides; two NULL pointers are equal, one NULL pointer equals nothing *)
streq_except_trailing_slash(s1, s2) ==
    IF s1 = NULL /\ s2 = NULL THEN TRUE
    ELSE IF s1 = NULL \/ s2 = NULL THEN FALSE
    ELSE Str(s1) = Str(s2) \/ WithoutSlash(Str(s1)) = WithoutSlash(Str(s2))

(* mnt_fs_streq_target(fs, path) *)
mnt_fs_streq_target(target, path) == streq_except_trailing_slash(target, path)

(* the resolver's canonical form of a path: symbolic links followed, no
   trailing slash *)
mnt_resolve_path(path) ==
    IF path = <<"/", "l">> THEN <<<<"/", "a">>>>
    ELSE IF path = <<"/">> THEN <<path>>
    ELSE <<WithoutSlash(path)>>

(* fs->flags of entry f; empty as long as its fstype was never set *)
FsFlags(f) == fs_rec[f].flags

(* while (mnt_tab_next_fs(tb, &itr, &fs) == 0) if (match(fs)) return fs;
   matching is the set of entries the test accepts, 0 stands for no entry *)
RECURSIVE FindPass(_, _, _)
FindPass(ents, it, matching) ==
    LET r == mnt_tab_next_fs(ents, it)
    IN  IF r.rc # 0 THEN 0
        ELSE IF r.fs \in matching THEN r.fs
        ELSE FindPass(ents, r.itr, matching)

(* faulty variant: the later passes are always taken *)
FirstPassOnlyNever(cache, cn) == FALSE

(* if (!tb->cache || !(cn = mnt_resolve_path(path, tb->cache))) return NULL *)
FirstPassOnly(cache, cn) == ~cache \/ cn = NULL

(* mnt_tab_find_target(tb, path, direction) *)
mnt_tab_find_target(ents, target, cache, path, direction) ==
    LET it == mnt_reset_iter(direction)
        cn == mnt_resolve_path(path)
        native == FindPass(ents, it,
                      {f \in FsIds : mnt_fs_streq_target(target[f], <<path>>)})
        canon == FindPass(ents, it,
                      {f \in FsIds : mnt_fs_streq_target(target[f], cn)})
        third == FindPass(ents, it,
                      {f \in FsIds :
                          /\ ~(\/ target[f] = NULL
                               \/ "MNT_FS_SWAP" \notin FsFlags(f)
                               \/ Str(target[f]) = <<"/">>)
                          /\ cn = mnt_resolve_path(Str(target[f]))})
    IN  IF native # 0 THEN native
        ELSE IF FirstPassOnly(cache, cn) THEN 0
        ELSE IF canon # 0 THEN canon
        ELSE third

(* no lookup was made yet: the table is built before it is searched *)
NoLookupYet == find.path = NULL

(* mnt_fs_set_target(fs, target) on an entry that is in no table *)
SetTarget(f, t) ==
    /\ NoLookupYet
    /\ fs_state[f] = "new"
    /\ fs_target' = [fs_target EXCEPT ![f] = <<t>>]
    /\ UNCHANGED <<handleVars, testVars, histVars, tabVars>>
    /\ UNCHANGED <<parse_call, iterVars, entVars, optVars>>

(* mnt_tab_set_cache(tb, mpc) *)
TabSetCache(c) ==
    /\ NoLookupYet
    /\ tb_cache' = c
    /\ UNCHANGED <<itr, itr_rc, seen, find>>
    /\ UNCHANGED <<handleVars, testVars, histVars, tabVars>>
    /\ UNCHANGED <<parse_call, fs_target, entVars, optVars>>

(* fs = mnt_tab_find_target(tb, path, direction) *)
FindTarget(path, direction) ==
    /\ find' = [path |-> <<path>>, direction |-> direction,
                res |-> mnt_tab_find_target(tb_ents, fs_target, tb_cache,
                                            path, direction)]
    /\ UNCHANGED <<tb_cache, itr, itr_rc, seen>>
    /\ UNCHANGED <<handleVars, testVars, histVars, tabVars>>
    /\ UNCHANGED <<parse_call, fs_target, entVars, optVars>>

NextFind ==
    \/ /\ NoLookupYet
       /\ \/ NewFs
          \/ \E f \in FsIds : TabAddFs(f)
          \/ \E f \in FsIds : TabRemoveFs(f)
    \/ \E f \in FsIds, t \in Targets : SetTarget(f, t)
    \/ \E c \in BOOLEAN : TabSetCache(c)
    \/ \E path \in Paths, d \in Directions : FindTarget(path, d)

SpecFind == InitTabOnly /\ [][NextFind]_vars

(* ------------------------------------------------------------------ *)
(* Lookup by target in a table with swap areas and symbolic links      *)
(* ------------------------------------------------------------------ *)
(* the targets of the parsed entries: the root, a directory, a symbolic
   link to it and another directory *)
ParsedTargets == { <<"/">>, <<"/", "a">>, <<"/", "l">>, <<"/", "b">> }

(* an entry after mnt_fs_set_fstype(fs, "swap"), and one whose fstype is
   not classified *)
SwapEnt == [NewEnt EXCEPT !.fstype = << <<"s", "w", "a", "p">> >>,
                          !.flags = {"MNT_FS_SWAP"}]

PlainEnt == [NewEnt EXCEPT !.fstype = << <<"e", "x", "t", "3">> >>]

(* a parsed table: every entry has a target and an fstype *)
InitCanon ==
    /\ InitHandles
    /\ pc = [p \in Procs |-> "off"]
    /\ procmask = [p \in Procs |-> {}]
    /\ files = [x \in AllPaths |-> NoIno]
    /\ InitTest
    /\ \E n \in 0..MaxFs :
          /\ tb_ents = [i \in 1..n |-> i]
          /\ tb_nents = n
          /\ fs_state = [f \in 1..MaxFs |-> IF f <= n THEN "linked"
                                            ELSE "free"]
          /\ fs_target \in [1..MaxFs -> {NULL} \cup {<<t>> : t \in ParsedTargets}]
          /\ fs_rec \in [1..MaxFs -> {NewEnt, SwapEnt, PlainEnt}]
          /\ \A f \in 1..MaxFs :
                IF f <= n THEN fs_target[f] # NULL /\ fs_rec[f] # NewEnt
                ELSE fs_target[f] = NULL /\ fs_rec[f] = NewEnt
    /\ parse_rc = 0
    /\ parse_call = [lines |-> <<>>, newline |-> TRUE, errcb |-> <<>>,
                     called |-> FALSE]
    /\ InitIter /\ InitOpt /\ InitMerge /\ InitPn
    /\ ent = NewEnt
    /\ ent_call = [fn |-> "mnt_new_fs", arg |-> NULL, rc |-> 0]
    /\ InitUm /\ InitSit /\ InitKid /\ InitFindSrc
    /\ fs_id = [f \in 1..MaxFs |-> 0]
    /\ fs_parent = [f \in 1..MaxFs |-> 0]

NextCanon ==
    \/ \E c \in BOOLEAN : TabSetCache(c)
    \/ \E path \in Paths, d \in Directions : FindTarget(path, d)

SpecCanon == InitCanon /\ [][NextCanon]_vars

(* ------------------------------------------------------------------ *)
(* One entry's source and fstype: fs.c                                 *)
(* ------------------------------------------------------------------ *)
ENOMEM == 12

(* the strings given to mnt_fs_set_source *)
Sources == { <<"n", "o", "n", "e">>, <<"/", "d">>, <<"L", "=", "x">>,
             <<"U", "=", "y">>, <<"L", "=">>, <<"=", "x">> }

(* the strings given to mnt_fs_set_fstype; NULL is accepted too *)
FsTypes == { <<"s", "w", "a", "p">>, <<"p", "r", "o", "c">>,
             <<"n", "f", "s">>, <<"e", "x", "t", "3">> }

(* strchr(str, c): the index of the first c in str, 0 when there is none *)
strchr(str, c) ==
    IF \E i \in 1..Len(str) : str[i] = c
    THEN CHOOSE i \in 1..Len(str) :
            str[i] = c /\ \A j \in 1..(i - 1) : str[j] # c
    ELSE 0

(* blkid_parse_tag_string(token, &t, &v): splits NAME=VALUE at the first
   '='; a token that does not look like NAME=VALUE is refused *)
blkid_parse_tag_string(token) ==
    LET eq == strchr(token, "=")
    IN  IF eq <= 1 \/ eq = Len(token) THEN [rc |-> -1, t |-> NULL, v |-> NULL]
        ELSE [rc |-> 0, t |-> <<SubSeq(token, 1, eq - 1)>>,
              v |-> <<SubSeq(token, eq + 1, Len(token))>>]

(* faulty variant: a tag string clears the source *)
SetSourceClearsTagged(fs, source) ==
    LET src == IF source # NULL /\ Str(source) = <<"n", "o", "n", "e">>
               THEN NULL ELSE source
        tag == IF src # NULL /\ strchr(Str(src), "=") # 0
               THEN blkid_parse_tag_string(Str(src))
               ELSE [rc |-> 0, t |-> NULL, v |-> NULL]
    IN  IF tag.rc # 0 THEN [rc |-> -1, fs |-> fs]
        ELSE [rc |-> 0,
              fs |-> [fs EXCEPT !.source = IF tag.t # NULL THEN NULL ELSE src,
                                !.tagname = tag.t, !.tagval = tag.v]]

(* __mnt_fs_set_source_ptr(fs, source) *)
mnt_fs_set_source_ptr(fs, source) ==
    LET src == IF source # NULL /\ Str(source) = <<"n", "o", "n", "e">>
               THEN NULL ELSE source
        tag == IF src # NULL /\ strchr(Str(src), "=") # 0
               THEN blkid_parse_tag_string(Str(src))
               ELSE [rc |-> 0, t |-> NULL, v |-> NULL]
    IN  IF tag.rc # 0 THEN [rc |-> -1, fs |-> fs]
        ELSE [rc |-> 0,
              fs |-> [fs EXCEPT !.source = src,
                                !.tagname = tag.t, !.tagval = tag.v]]

(* mnt_fs_set_source(fs, source): oom is strdup() returning NULL *)
mnt_fs_set_source(fs, source, oom) ==
    IF oom THEN [rc |-> -ENOMEM, fs |-> fs]
    ELSE mnt_fs_set_source_ptr(fs, <<source>>)

(* mnt_fs_get_srcpath(fs) *)
mnt_fs_get_srcpath(fs) == IF fs.tagname # NULL THEN NULL ELSE fs.source

(* the classifiers of utils.c *)
mnt_fstype_is_pseudofs(type) == type = <<"p", "r", "o", "c">>

mnt_fstype_is_netfs(type) == type = <<"n", "f", "s">>

(* __mnt_fs_set_fstype_ptr(fs, fstype): MNT_FS_PSEUDO and MNT_FS_NET are
   cleared, then one bit is set for the new type *)
mnt_fs_set_fstype_ptr(fs, fstype) ==
    LET cleared == fs.flags \ {"MNT_FS_PSEUDO", "MNT_FS_NET"}
        bit == IF fstype = NULL THEN {}
               ELSE IF mnt_fstype_is_pseudofs(Str(fstype)) THEN {"MNT_FS_PSEUDO"}
               ELSE IF mnt_fstype_is_netfs(Str(fstype)) THEN {"MNT_FS_NET"}
               ELSE IF Str(fstype) = <<"s", "w", "a", "p">> THEN {"MNT_FS_SWAP"}
               ELSE {}
    IN  [rc |-> 0,
         fs |-> [fs EXCEPT !.fstype = fstype, !.flags = cleared \cup bit]]

(* mnt_fs_set_fstype(fs, fstype): oom is strdup() returning NULL *)
mnt_fs_set_fstype(fs, fstype, oom) ==
    IF fstype # NULL /\ oom THEN [rc |-> -ENOMEM, fs |-> fs]
    ELSE mnt_fs_set_fstype_ptr(fs, fstype)

(* rc = mnt_fs_set_source(fs, source) *)
SetSource(source, oom) ==
    /\ LET r == mnt_fs_set_source(ent, source, oom)
       IN  /\ ent' = r.fs
           /\ ent_call' = [fn |-> "mnt_fs_set_source", arg |-> <<source>>,
                           rc |-> r.rc]
    /\ UNCHANGED <<handleVars, testVars, histVars, tabVars>>
    /\ UNCHANGED <<parse_call, fs_target, iterVars, optVars, um, kinVars>>

(* rc = mnt_fs_set_fstype(fs, fstype) *)
SetFstype(fstype, oom) ==
    /\ LET r == mnt_fs_set_fstype(ent, fstype, oom)
       IN  /\ ent' = r.fs
           /\ ent_call' = [fn |-> "mnt_fs_set_fstype", arg |-> fstype,
                           rc |-> r.rc]
    /\ UNCHANGED <<handleVars, testVars, histVars, tabVars>>
    /\ UNCHANGED <<parse_call, fs_target, iterVars, optVars, um, kinVars>>

NextFs ==
    \/ \E source \in Sources, oom \in BOOLEAN : SetSource(source, oom)
    \/ \E fstype \in {NULL} \cup {<<t>> : t \in FsTypes}, oom \in BOOLEAN :
          SetFstype(fstype, oom)

SpecFs == InitTabOnly /\ [][NextFs]_vars

(* ------------------------------------------------------------------ *)
(* Lookup by source path: tab.c, fs.c                                  *)
(* ------------------------------------------------------------------ *)
(* the sources of the parsed entries: a device, a symbolic link to it and
   the label the device carries *)
SrcStrings == { <<"/", "a">>, <<"/", "l">>, <<"L", "=", "x">> }

SrcTypes == { <<"p", "r", "o", "c">>, <<"n", "f", "s">>,
              <<"e", "x", "t", "3">> }

(* what mnt_cache_read_tags finds: the tags of the device are read into the
   cache (0), the device cannot be opened (EACCES), or another failure *)
TagReads == { "cached", "EACCES", "failed" }

(* the entry a line with this source and fstype is parsed into *)
ParsedEnt(source, fstype) ==
    mnt_fs_set_fstype(mnt_fs_set_source(NewEnt, source, FALSE).fs,
                      <<fstype>>, FALSE).fs

(* mnt_fs_streq_srcpath(fs, path): pseudo filesystems are compared byte by
   byte, the others without regard to one trailing slash *)
mnt_fs_streq_srcpath(fs, path) ==
    LET p == mnt_fs_get_srcpath(fs)
    IN  IF "MNT_FS_PSEUDO" \notin fs.flags
        THEN streq_except_trailing_slash(p, path)
        ELSE IF p = NULL /\ path = NULL THEN TRUE
        ELSE p # NULL /\ path # NULL /\ Str(p) = Str(path)

(* mnt_fs_get_tag(fs, &t, &v): -EINVAL when the entry has no tag *)
mnt_fs_get_tag(fs) == IF fs.tagname = NULL THEN -EINVAL ELSE 0

(* the device /a carries LABEL=x *)
mnt_cache_device_has_tag(devname, t, v) ==
    devname = <<"/", "a">> /\ t = <<"L">> /\ v = <<"x">>

mnt_resolve_tag(t, v) ==
    IF t = <<"L">> /\ v = <<"x">> THEN << <<"/", "a">> >> ELSE NULL

(* ntags: the entries for which mnt_fs_get_srcpath() returns nothing *)
NTags(ents, recs) ==
    Cardinality({i \in 1..Len(ents) : mnt_fs_get_srcpath(recs[ents[i]]) = NULL})

(* faulty variant: the last pass takes every entry *)
SkipsNetPseudoNever(fs) == FALSE

(* if (fs->flags & (MNT_FS_NET | MNT_FS_PSEUDO)) continue *)
SkipsNetPseudo(fs) == fs.flags \cap {"MNT_FS_NET", "MNT_FS_PSEUDO"} # {}

(* the pass over "evaluated tag": by the tags in the cache, or by resolving
   every tag of the table when the device is not accessible *)
TagPass(ents, recs, it, cn, tags) ==
    IF tags = "cached"
    THEN FindPass(ents, it,
             {f \in FsIds : /\ mnt_fs_get_tag(recs[f]) = 0
                            /\ mnt_cache_device_has_tag(cn, recs[f].tagname,
                                                        recs[f].tagval)})
    ELSE IF tags = "EACCES"
    THEN FindPass(ents, it,
             {f \in FsIds : /\ mnt_fs_get_tag(recs[f]) = 0
                            /\ mnt_resolve_tag(recs[f].tagname, recs[f].tagval)
                                   = <<cn>>})
    ELSE 0

(* the pass over "non-canonicalized paths in mnt_tab" *)
LastPass(ents, recs, it, cn) ==
    FindPass(ents, it,
        {f \in FsIds : /\ ~SkipsNetPseudo(recs[f])
                       /\ mnt_fs_get_srcpath(recs[f]) # NULL
                       /\ mnt_resolve_path(Str(mnt_fs_get_srcpath(recs[f])))
                              = <<cn>>})

(* the passes after the first one; cn is the canonicalized path *)
SrcpathCanon(ents, recs, nents, it, cn, ntags, tags) ==
    LET canon == IF ntags < nents
                 THEN FindPass(ents, it,
                          {f \in FsIds : mnt_fs_streq_srcpath(recs[f], <<cn>>)})
                 ELSE 0
        tagged == IF ntags # 0 THEN TagPass(ents, recs, it, cn, tags) ELSE 0
        last == IF ntags <= nents THEN LastPass(ents, recs, it, cn) ELSE 0
    IN  IF canon # 0 THEN [fs |-> canon, pass |-> 2]
        ELSE IF tagged # 0 THEN [fs |-> tagged, pass |-> 3]
        ELSE IF last # 0 THEN [fs |-> last, pass |-> 4]
        ELSE [fs |-> 0, pass |-> 0]

(* mnt_tab_find_srcpath(tb, path, direction); pass is the pass that returned
   the entry *)
mnt_tab_find_srcpath(ents, recs, nents, cache, path, direction, tags) ==
    LET it == mnt_reset_iter(direction)
        cn == mnt_resolve_path(path)
        native == FindPass(ents, it,
                      {f \in FsIds : mnt_fs_streq_srcpath(recs[f], <<path>>)})
    IN  IF native # 0 THEN [fs |-> native, pass |-> 1]
        ELSE IF ~cache \/ cn = NULL THEN [fs |-> 0, pass |-> 0]
        ELSE SrcpathCanon(ents, recs, nents, it, Str(cn), NTags(ents, recs),
                          tags)

(* a parsed table: every entry has a source and an fstype *)
InitSrcpath ==
    /\ InitHandles
    /\ pc = [p \in Procs |-> "off"]
    /\ procmask = [p \in Procs |-> {}]
    /\ files = [x \in AllPaths |-> NoIno]
    /\ InitTest
    /\ \E n \in 0..MaxFs :
          /\ InitTable([i \in 1..n |-> i])
          /\ fs_rec \in [1..MaxFs -> {NewEnt} \cup
                            {ParsedEnt(x, t) : x \in SrcStrings, t \in SrcTypes}]
          /\ \A f \in 1..MaxFs : (fs_rec[f] = NewEnt) <=> (f > n)
    /\ InitIter /\ InitOpt /\ InitMerge /\ InitPn
    /\ ent = NewEnt
    /\ ent_call = [fn |-> "mnt_new_fs", arg |-> NULL, rc |-> 0]
    /\ InitUm /\ InitSit /\ InitKid /\ InitFindSrc
    /\ fs_id = [f \in 1..MaxFs |-> 0]
    /\ fs_parent = [f \in 1..MaxFs |-> 0]

(* fs = mnt_tab_find_srcpath(tb, path, direction) *)
FindSrcpath(path, direction, tags) ==
    /\ LET r == mnt_tab_find_srcpath(tb_ents, fs_rec, mnt_tab_get_nents,
                                     tb_cache, path, direction, tags)
       IN  find_src' = [path |-> <<path>>, direction |-> direction,
                        res |-> r.fs, pass |-> r.pass]
    /\ UNCHANGED <<iterVars, idVars, sit, kid>>
    /\ UNCHANGED <<handleVars, testVars, histVars, tabVars>>
    /\ UNCHANGED <<parse_call, fs_target, ent, ent_call, um, optVars>>

NextSrcpath ==
    \/ \E c \in BOOLEAN : TabSetCache(c)
    \/ \E path \in Paths, d \in Directions, tags \in TagReads :
          FindSrcpath(path, d, tags)

SpecSrcpath == InitSrcpath /\ [][NextSrcpath]_vars

(* ------------------------------------------------------------------ *)
(* The option-string engine: optstr.c                                  *)
(* ------------------------------------------------------------------ *)
(* A char * into a string str is an index 1..Len(str)+1; Len(str)+1 is
   the terminating '\0' and 0 stands for NULL. *)
NoOpt == [rc |-> 1, name |-> 0, namesz |-> 0, value |-> 0, valsz |-> 0,
          next |-> 0]

(* the for loop of mnt_optstr_parse_next: p is the scanned position,
   open_quote and sep are the loop's variables *)
RECURSIVE ParseScan(_, _, _, _, _)
ParseScan(str, start, p, open_quote, sep) ==
    IF p > Len(str) THEN [NoOpt EXCEPT !.rc = 1, !.next = start]
    ELSE LET quote == IF str[p] = "\"" THEN ~open_quote ELSE open_quote
         IN  IF quote THEN ParseScan(str, start, p + 1, quote, sep)
             ELSE LET sep2 == IF sep = 0 /\ str[p] = "=" THEN p ELSE sep
                      stop == IF str[p] = "," THEN p
                              ELSE IF p = Len(str) THEN p + 1
                              ELSE 0
                  IN  IF stop = 0
                      THEN ParseScan(str, start, p + 1, quote, sep2)
                      ELSE IF stop <= start
                      THEN [NoOpt EXCEPT !.rc = -EINVAL, !.next = start]
                      ELSE [rc |-> 0,
                            name |-> start,
                            namesz |-> IF sep2 # 0 THEN sep2 - start
                                       ELSE stop - start,
                            value |-> IF sep2 # 0 THEN sep2 + 1 ELSE 0,
                            valsz |-> IF sep2 # 0 THEN stop - sep2 - 1 ELSE 0,
                            next |-> IF stop <= Len(str) THEN stop + 1
                                     ELSE stop]

(* mnt_optstr_parse_next(&optstr, &name, &namesz, &value, &valsz) with
   *optstr at cursor *)
mnt_optstr_parse_next(str, cursor) == ParseScan(str, cursor, cursor, FALSE, 0)

(* mnt_optstr_next_option *)
mnt_optstr_next_option(str, cursor) == mnt_optstr_parse_next(str, cursor)

NotFound == [rc |-> 1, begin |-> 0, end |-> 0, value |-> 0, valsz |-> 0,
             namesz |-> 0]

(* faulty variant: names are compared over the item's length only *)
RECURSIVE LocatePrefix(_, _, _)
LocatePrefix(str, cursor, name) ==
    LET r == mnt_optstr_parse_next(str, cursor)
    IN  IF r.rc # 0 THEN [NotFound EXCEPT !.rc = r.rc]
        ELSE IF SubSeq(str, r.name, r.name + r.namesz - 1)
                    = SubSeq(name, 1, Min(r.namesz, Len(name)))
        THEN [rc |-> 0, begin |-> r.name,
              end |-> IF str[r.next - 1] = "," THEN r.next - 1 ELSE r.next,
              value |-> r.value, valsz |-> r.valsz, namesz |-> r.namesz]
        ELSE LocatePrefix(str, r.next, name)

(* the do loop of mnt_optstr_locate_option from the cursor on *)
RECURSIVE LocateFrom(_, _, _)
LocateFrom(str, cursor, name) ==
    LET r == mnt_optstr_parse_next(str, cursor)
    IN  IF r.rc # 0 THEN [NotFound EXCEPT !.rc = r.rc]
        ELSE IF /\ Len(name) = r.namesz
                /\ SubSeq(str, r.name, r.name + r.namesz - 1) = name
        THEN [rc |-> 0, begin |-> r.name,
              end |-> IF str[r.next - 1] = "," THEN r.next - 1 ELSE r.next,
              value |-> r.value, valsz |-> r.valsz, namesz |-> r.namesz]
        ELSE LocateFrom(str, r.next, name)

(* mnt_optstr_locate_option(ostr, name, &ol) *)
mnt_optstr_locate_option(ostr, name) ==
    IF ostr = NULL THEN NotFound ELSE LocateFrom(Str(ostr), 1, name)

(* faulty variant: the comma left at the end is not removed *)
RemoveAtKeepsComma(str, begin, end) ==
    LET end2 == IF /\ begin = 1 \/ str[begin - 1] = ","
                   /\ end <= Len(str) /\ str[end] = ","
                THEN end + 1 ELSE end
    IN  SubSeq(str, 1, begin - 1) \o SubSeq(str, end2, Len(str))

(* mnt_optstr_remove_option_at(&ostr, begin, end).  When the string
   becomes empty, *(begin - 1) reads the byte in front of the buffer and
   may zero it; no byte of the string is touched by that. *)
mnt_optstr_remove_option_at(str, begin, end) ==
    LET end2 == IF /\ begin = 1 \/ str[begin - 1] = ","
                   /\ end <= Len(str) /\ str[end] = ","
                THEN end + 1 ELSE end
        moved == SubSeq(str, 1, begin - 1) \o SubSeq(str, end2, Len(str))
    IN  IF begin > Len(moved) /\ begin > 1 /\ moved[begin - 1] = ","
        THEN SubSeq(moved, 1, begin - 2)
        ELSE moved

(* __mnt_optstr_append_option: oom is realloc() returning NULL *)
append_option(ostr, name, value, oom) ==
    LET old == IF ostr = NULL THEN <<>> ELSE Str(ostr)
    IN  IF oom THEN [rc |-> -ENOMEM, optstr |-> ostr]
        ELSE [rc |-> 0,
              optstr |-> << (IF Len(old) > 0 THEN old \o <<",">> ELSE <<>>)
                            \o name
                            \o (IF Len(value) > 0 THEN <<"=">> \o value
                                ELSE <<>>) >>]

(* mnt_optstr_append_option(&ostr, name, value); vsz = 0 for a NULL or
   empty value *)
mnt_optstr_append_option(ostr, name, value, oom) ==
    append_option(ostr, name, IF value = NULL THEN <<>> ELSE Str(value), oom)

(* mnt_optstr_prepend_option(&ostr, name, value): the new item is
   appended to an empty string, the old string is appended to it as a
   name; on failure the old string is put back *)
mnt_optstr_prepend_option(ostr, name, value, oom1, oom2) ==
    LET first == mnt_optstr_append_option(NULL, name, value, oom1)
        second == IF first.rc = 0 /\ ostr # NULL /\ Len(Str(ostr)) > 0
                  THEN mnt_optstr_append_option(first.optstr, Str(ostr),
                                                NULL, oom2)
                  ELSE first
    IN  IF second.rc = 0 THEN second ELSE [rc |-> second.rc, optstr |-> ostr]

(* insert_value(&str, pos, substr, NULL) *)
insert_value(str, pos, substr, oom) ==
    LET sep == ~(pos > 1 /\ str[pos - 1] = "=")
    IN  IF oom THEN [rc |-> -ENOMEM, optstr |-> <<str>>]
        ELSE [rc |-> 0,
              optstr |-> << SubSeq(str, 1, pos - 1)
                            \o (IF sep THEN <<"=">> ELSE <<>>)
                            \o substr
                            \o SubSeq(str, pos, Len(str)) >>]

(* mnt_optstr_set_option(&ostr, name, value) *)
mnt_optstr_set_option(ostr, name, value, oom) ==
    LET ol == mnt_optstr_locate_option(ostr, name)
        str == Str(ostr)
        nameend == ol.begin + ol.namesz
    IN  IF ol.rc < 0 THEN [rc |-> ol.rc, optstr |-> ostr]
        ELSE IF ol.rc = 1
        THEN mnt_optstr_append_option(ostr, name, value, oom)
        ELSE IF value = NULL /\ ol.value # 0 /\ ol.valsz # 0
        THEN [rc |-> 0,
              optstr |-> <<mnt_optstr_remove_option_at(str, nameend, ol.end)>>]
        ELSE IF value # NULL /\ ol.value = 0
        THEN insert_value(str, nameend, Str(value), oom)
        ELSE IF value # NULL /\ ol.value # 0 /\ Len(Str(value)) = ol.valsz
        THEN [rc |-> 0,
              optstr |-> << SubSeq(str, 1, ol.value - 1) \o Str(value)
                            \o SubSeq(str, ol.value + ol.valsz, Len(str)) >>]
        ELSE IF value # NULL /\ ol.value # 0
        THEN insert_value(mnt_optstr_remove_option_at(str, nameend, ol.end),
                          nameend, Str(value), oom)
        ELSE [rc |-> 0, optstr |-> ostr]

(* mnt_optstr_remove_option(&ostr, name) *)
mnt_optstr_remove_option(ostr, name) ==
    LET ol == mnt_optstr_locate_option(ostr, name)
    IN  IF ol.rc # 0 THEN [rc |-> ol.rc, optstr |-> ostr]
        ELSE [rc |-> 0,
              optstr |-> <<mnt_optstr_remove_option_at(Str(ostr), ol.begin,
                                                       ol.end)>>]

(* ------------------------------------------------------------------ *)
(* A caller that edits one option string                               *)
(* ------------------------------------------------------------------ *)
(* option names, and values: none, empty, plain, and a quoted comma *)
Names == { <<"a">>, <<"a", "b">> }

Values == { NULL, << <<>> >>, << <<"x">> >>, << <<"\"", ",", "\"">> >> }

(* the caller's string after a call; strings longer than MaxOptLen are not
   explored *)
OptCall(op, r) ==
    /\ r.optstr # NULL => Len(Str(r.optstr)) <= MaxOptLen
    /\ optstr' = r.optstr
    /\ opt_call' = [op |-> op, rc |-> r.rc]
    /\ UNCHANGED <<mg, pn, rt>>
    /\ UNCHANGED <<handleVars, testVars, histVars, tabVars>>
    /\ UNCHANGED <<parse_call, fs_target, iterVars, entVars>>

OptAppend(name, value, oom) ==
    OptCall("append", mnt_optstr_append_option(optstr, name, value, oom))

OptPrepend(name, value, oom1, oom2) ==
    OptCall("prepend",
            mnt_optstr_prepend_option(optstr, name, value, oom1, oom2))

OptSet(name, value, oom) ==
    OptCall("set", mnt_optstr_set_option(optstr, name, value, oom))

OptRemove(name) ==
    OptCall("remove", mnt_optstr_remove_option(optstr, name))

(* the caller starts with no options: a NULL or an empty string *)
InitOptOnly ==
    /\ InitHandles
    /\ pc = [p \in Procs |-> "off"]
    /\ procmask = [p \in Procs |-> {}]
    /\ files = [x \in AllPaths |-> NoIno]
    /\ InitTest
    /\ InitTabList /\ InitIter /\ InitEnt /\ InitMerge /\ InitPn /\ InitRt
    /\ optstr \in {NULL, << <<>> >>}
    /\ opt_call = [op |-> "none", rc |-> 0]

NextOpt ==
    \/ \E n \in Names, v \in Values, oom \in BOOLEAN : OptAppend(n, v, oom)
    \/ \E n \in Names, v \in Values, o1, o2 \in BOOLEAN : OptPrepend(n, v, o1, o2)
    \/ \E n \in Names, v \in Values, oom \in BOOLEAN : OptSet(n, v, oom)
    \/ \E n \in Names : OptRemove(n)

SpecOpt == InitOptOnly /\ [][NextOpt]_vars

(* ------------------------------------------------------------------ *)
(* Walking one option string with mnt_optstr_next_option               *)
(* ------------------------------------------------------------------ *)
OptChars == {"a", "=", ",", "\""}

AllStrings(n) == UNION { [1..k -> OptChars] : k \in 0..n }

(* any string, well formed or not, with the cursor at its start *)
InitNextOption ==
    /\ InitHandles
    /\ pc = [p \in Procs |-> "off"]
    /\ procmask = [p \in Procs |-> {}]
    /\ files = [x \in AllPaths |-> NoIno]
    /\ InitTest
    /\ InitTabList /\ InitIter /\ InitEnt /\ InitOpt /\ InitMerge
    /\ \E str \in AllStrings(MaxStrLen) :
          pn = [str |-> str, cursor |-> 1, from |-> 1, called |-> FALSE,
                res |-> NoOpt]

(* rc = mnt_optstr_next_option(&cursor, &name, &namesz, &value, &valsz) *)
NextOption ==
    /\ ~pn.called \/ pn.res.rc = 0
    /\ LET r == mnt_optstr_next_option(pn.str, pn.cursor)
       IN  pn' = [pn EXCEPT !.from = pn.cursor, !.cursor = r.next,
                            !.called = TRUE, !.res = r]
    /\ UNCHANGED <<handleVars, testVars, histVars, tabVars>>
    /\ UNCHANGED <<parse_call, fs_target, iterVars, entVars>>
    /\ UNCHANGED <<optstr, opt_call, mg, rt>>

SpecNextOption == InitNextOption /\ [][NextOption]_vars

(* ------------------------------------------------------------------ *)
(* An option appended to a string and removed again                    *)
(* ------------------------------------------------------------------ *)
RtNames == { <<"a">>, <<"a", "a">> }

(* any string, well formed or not, or no string; any name and value *)
InitRoundTrip ==
    /\ InitHandles
    /\ pc = [p \in Procs |-> "off"]
    /\ procmask = [p \in Procs |-> {}]
    /\ files = [x \in AllPaths |-> NoIno]
    /\ InitTest
    /\ InitTabList /\ InitIter /\ InitEnt /\ InitMerge /\ InitPn
    /\ opt_call = [op |-> "none", rc |-> 0]
    /\ optstr \in {NULL} \cup { <<str>> : str \in AllStrings(MaxStrLen) }
    /\ \E n \in RtNames, v \in Values :
          rt = [orig |-> optstr, name |-> n, value |-> v, stage |-> "none",
                rc |-> 0]

(* rc = mnt_optstr_append_option(&optstr, name, value) *)
RtAppend(oom) ==
    /\ rt.stage = "none"
    /\ LET r == mnt_optstr_append_option(optstr, rt.name, rt.value, oom)
       IN  /\ optstr' = r.optstr
           /\ rt' = [rt EXCEPT !.stage = "append", !.rc = r.rc]
    /\ UNCHANGED <<handleVars, testVars, histVars, tabVars>>
    /\ UNCHANGED <<parse_call, fs_target, iterVars, entVars>>
    /\ UNCHANGED <<opt_call, mg, pn>>

(* if (!rc) rc = mnt_optstr_remove_option(&optstr, name) *)
RtRemove ==
    /\ rt.stage = "append" /\ rt.rc = 0
    /\ LET r == mnt_optstr_remove_option(optstr, rt.name)
       IN  /\ optstr' = r.optstr
           /\ rt' = [rt EXCEPT !.stage = "remove", !.rc = r.rc]
    /\ UNCHANGED <<handleVars, testVars, histVars, tabVars>>
    /\ UNCHANGED <<parse_call, fs_target, iterVars, entVars>>
    /\ UNCHANGED <<opt_call, mg, pn>>

NextRoundTrip ==
    \/ \E oom \in BOOLEAN : RtAppend(oom)
    \/ RtRemove

SpecRoundTrip == InitRoundTrip /\ [][NextRoundTrip]_vars

(* ------------------------------------------------------------------ *)
(* Merging the VFS and the FS options of an entry                      *)
(* ------------------------------------------------------------------ *)
RW == <<"r", "w">>

RO == <<"r", "o">>

MergeItems == { RW, RO, <<"a">>, <<"b">> }

RECURSIVE JoinItems(_)
JoinItems(items) ==
    IF Len(items) = 0 THEN <<>>
    ELSE IF Len(items) = 1 THEN items[1]
    ELSE items[1] \o <<",">> \o JoinItems(Tail(items))

(* the arguments of a merge: no string, or up to MaxItems items *)
MergeInputs ==
    {NULL} \cup { <<JoinItems(items)>> :
                    items \in UNION { [1..k -> MergeItems] : k \in 0..MaxItems } }

(* !mnt_optstr_remove_option(&p, ...) *)
Removed(r) == IF r.rc = 0 THEN 1 ELSE 0

(* faulty variant: the leading token is ro whatever was removed *)
MergeLeadRo(ro, p) ==
    << RO \o (IF Len(Str(p)) = 0 THEN <<>> ELSE <<",">> \o Str(p)) >>

(* the memcpy of the leading token in front of p = res + 3 *)
MergeLead(ro, p) ==
    << (IF ro # 0 THEN RO ELSE RW)
       \o (IF Len(Str(p)) = 0 THEN <<>> ELSE <<",">> \o Str(p)) >>

(* after the second removal of ro, r4 *)
MergeRo2(ro, r4) == MergeLead(ro + Removed(r4), r4.optstr)

(* after the first removal of ro, r3: if (ro + rw < 2) ro += !remove(ro) *)
MergeRo1(rw, r3) ==
    IF Removed(r3) + rw < 2
    THEN MergeRo2(Removed(r3), mnt_optstr_remove_option(r3.optstr, RO))
    ELSE MergeLead(Removed(r3), r3.optstr)

(* after the second removal of rw, r2: if (rw != 2) ro += !remove(ro) *)
MergeRw2(rw, r2) ==
    IF rw + Removed(r2) # 2
    THEN MergeRo1(rw + Removed(r2), mnt_optstr_remove_option(r2.optstr, RO))
    ELSE MergeLead(0, r2.optstr)

(* after the first removal of rw, r1: rw += !remove(rw) *)
MergeRw1(r1) ==
    MergeRw2(Removed(r1), mnt_optstr_remove_option(r1.optstr, RW))

(* merge_optstr(vfs, fs); oom is malloc() returning NULL.  The removals
   work on p = res + 3; when one of them empties the string it reads
   res[2], which is not written yet, and the memcpy at the end overwrites
   that byte in every case. *)
merge_optstr(vfs, fs, oom) ==
    IF vfs = NULL /\ fs = NULL THEN NULL
    ELSE IF vfs = NULL \/ fs = NULL THEN (IF fs # NULL THEN fs ELSE vfs)
    ELSE IF vfs = fs THEN vfs
    ELSE IF oom THEN NULL
    ELSE MergeRw1(mnt_optstr_remove_option(
                      << Str(vfs) \o <<",">> \o Str(fs) >>, RW))

(* any two arguments, and an allocation that fails or not *)
InitMergeOnly ==
    /\ InitHandles
    /\ pc = [p \in Procs |-> "off"]
    /\ procmask = [p \in Procs |-> {}]
    /\ files = [x \in AllPaths |-> NoIno]
    /\ InitTest
    /\ InitTabList /\ InitIter /\ InitEnt /\ InitOpt /\ InitPn
    /\ \E vfs \in MergeInputs, fs \in MergeInputs, oom \in BOOLEAN :
          mg = [vfs |-> vfs, fs |-> fs, oom |-> oom, res |-> NULL,
                called |-> FALSE]

(* res = merge_optstr(vfs, fs) *)
Merge ==
    /\ ~mg.called
    /\ mg' = [mg EXCEPT !.res = merge_optstr(mg.vfs, mg.fs, mg.oom),
                        !.called = TRUE]
    /\ UNCHANGED <<handleVars, testVars, histVars, tabVars>>
    /\ UNCHANGED <<parse_call, fs_target, iterVars, entVars>>
    /\ UNCHANGED <<optstr, opt_call, pn, rt>>

SpecMerge == InitMergeOnly /\ [][Merge]_vars

(* ------------------------------------------------------------------ *)
(* Unmangling one field of a table line                                *)
(* ------------------------------------------------------------------ *)
(* bytes are numbers 0..255: backslash, '0', '4', '8' and 'a' *)
Backslash == 92

FieldBytes == {Backslash, 48, 52, 56, 97}

(* isoctal(a): (a & ~7) == '0' *)
isoctal(a) == a \div 8 = 6

(* one turn of the while loop of unmangle_to_buffer: s at its i-th byte, sz
   bytes counted, buf the bytes written so far; the byte stored is a char *)
UnmangleLoop(s, i, sz, len, buf) ==
    IF i <= Len(s) /\ sz < len - 1
    THEN IF /\ s[i] = Backslash /\ sz + 4 < len - 1
            /\ isoctal(s[i + 1]) /\ isoctal(s[i + 2]) /\ isoctal(s[i + 3])
         THEN [i |-> i + 4, sz |-> sz + 4, done |-> FALSE,
               buf |-> Append(buf, (64 * (s[i + 1] % 8) + 8 * (s[i + 2] % 8)
                                    + (s[i + 3] % 8)) % 256)]
         ELSE [i |-> i + 1, sz |-> sz + 1, done |-> FALSE,
               buf |-> Append(buf, s[i])]
    ELSE [i |-> i, sz |-> sz, done |-> TRUE, buf |-> buf]

RECURSIVE UnmangleFrom(_, _, _)
UnmangleFrom(s, len, st) ==
    IF st.done THEN st.buf
    ELSE UnmangleFrom(s, len, UnmangleLoop(s, st.i, st.sz, len, st.buf))

(* unmangle_to_buffer(s, buf, len): the bytes in buf in front of its NUL *)
unmangle_to_buffer(s, len) ==
    UnmangleFrom(s, len, [i |-> 1, sz |-> 0, done |-> FALSE, buf |-> <<>>])

(* unmangle_string(s): in place; the write position never passes the read
   position, so every byte is read before it is overwritten *)
unmangle_string(s) == unmangle_to_buffer(s, Len(s) + 1)

(* any field of up to MaxField bytes *)
InitUnmangle ==
    /\ InitHandles
    /\ pc = [p \in Procs |-> "off"]
    /\ procmask = [p \in Procs |-> {}]
    /\ files = [x \in AllPaths |-> NoIno]
    /\ InitTest
    /\ InitTabList /\ InitIter /\ InitOpt /\ InitMerge /\ InitPn
    /\ ent = NewEnt
    /\ ent_call = [fn |-> "mnt_new_fs", arg |-> NULL, rc |-> 0]
    /\ InitKin
    /\ \E s \in UNION { [1..k -> FieldBytes] : k \in 0..MaxField } :
          um = [s |-> s, out |-> <<>>, called |-> FALSE]

(* unmangle_string(field) in mnt_parse_tab_line *)
Unmangle ==
    /\ ~um.called
    /\ um' = [um EXCEPT !.out = unmangle_string(um.s), !.called = TRUE]
    /\ UNCHANGED <<handleVars, testVars, histVars, tabVars>>
    /\ UNCHANGED <<parse_call, fs_target, iterVars, optVars, ent, ent_call,
                   kinVars>>

SpecUnmangle == InitUnmangle /\ [][Unmangle]_vars

(* ------------------------------------------------------------------ *)
(* Claims about the hard-link protocol under test_lock                 *)
(* ------------------------------------------------------------------ *)
RECURSIVE SumTo(_, _)
SumTo(f, n) == IF n = 0 THEN 0 ELSE f[n] + SumTo(f, n - 1)

AllDone == \A p \in Procs : pc[p] = "done"

(* C1: at most one handle is in the locked state at any instant, in every
   interleaving of the processes' file-system steps *)
C1_AtMostOneLocked ==
    \A p, q \in Procs : p # q => ~(ml[p].locked /\ ml[q].locked)

(* one updater holds the lock and writes while another waits for it *)
C1_Witness ==
    \E p, q \in Procs :
        /\ p # q
        /\ ml[p].locked /\ pc[p] = "incr_write"
        /\ pc[q] = "l_blocked" /\ ml[q].lockfile_fd = files[ml[p].lockfile]

(* C2: no increment is lost: when all updaters have finished the counter
   equals the number of completed cycles, N*k when each completed k *)
C2_NoLostIncrement ==
    AllDone =>
        /\ counter = SumTo(done, NProcs)
        /\ (\A p \in Procs : done[p] = Loops) => counter = NProcs * Loops

(* all updaters completed their k cycles *)
C2_Witness ==
    AllDone /\ (\A p \in Procs : done[p] = Loops) /\ counter = NProcs * Loops

(* ------------------------------------------------------------------ *)
(* Claims about stale lockfiles and the deadline                       *)
(* ------------------------------------------------------------------ *)
Holding(p) == pc[p] \in {"incr_read", "incr_write"}

NoLiveHandleLocked == \A q \in Procs : ~ml[q].locked

(* C3 as stated: a process that calls the hard-link acquisition while a
   killed updater's lockfile is on disk eventually becomes locked *)
C3_StaleLockBroken ==
    \A q \in Procs : (Stale /\ pc[q] = "call_lock") ~> ml[q].locked

(* C3: nothing in lock_mtab breaks a stale lockfile: once a killed updater's
   lockfile is on disk it stays there and no handle becomes locked again,
   and every acquisition that starts its link loop then returns -ETIMEDOUT *)
C3_StaleLockStays ==
    /\ [](Stale => [](Stale /\ NoLiveHandleLocked))
    /\ \A q \in Procs :
          (Stale /\ pc[q] = "l_link") ~> (pc[q] = "ret_lock" /\ rc[q] = -ETIMEDOUT)

(* an updater timed out twice against the same stale lockfile *)
C3_Witness ==
    \E q \in Procs : Stale /\ timeouts[q] = MaxTimeouts /\ pc[q] = "l_blocked"

(* C4 as stated: a call that fails at the deadline without ownership
   returns -ETIMEDOUT *)
C4_FailsWithTimedOut ==
    \A p \in Procs : (pc[p] = "ret_lock" /\ rc[p] # 0) => rc[p] = -ETIMEDOUT

(* past the deadline the outcome of open(lockfile) is final: ownership is
   claimed or the call fails, with no further link attempt from there *)
NoRetryFromOpenPastDeadline ==
    \A p \in Procs :
        (pc[p] = "l_open" /\ Expired(p)) => pc'[p] \in {"l_open", "l_setlk", "u_enter"}

(* the value a call fails with at its deadline *)
FailureAtDeadline ==
    \A p \in Procs :
        (pc[p] \in {"l_open", "l_blocked"} /\ Expired(p) /\ pc'[p] = "u_enter") =>
            rc'[p] = IF pc[p] = "l_open" /\ files[ml[p].lockfile] = NoIno
                     THEN -ENOENT ELSE -ETIMEDOUT

(* C4: every hard-link acquisition returns; once its deadline is reached a
   call that finds the lockfile of another process fails with -ETIMEDOUT, a
   call that finds the lockfile just removed fails with -ENOENT, and a
   failed open(lockfile) is not retried *)
C4_DeadlineBounded ==
    /\ [][NoRetryFromOpenPastDeadline /\ FailureAtDeadline]_vars
    /\ \A p \in Procs : (pc[p] = "l_link") ~> (pc[p] = "ret_lock")

(* an acquisition failed with -ETIMEDOUT at its deadline while another
   process held the lock *)
C4_Witness ==
    \E p, q \in Procs :
        /\ p # q /\ Holding(q)
        /\ pc[p] = "ret_lock" /\ rc[p] = -ETIMEDOUT /\ ~ml[p].locked

(* ------------------------------------------------------------------ *)
(* Claims about mnt_unlock_file                                        *)
(* ------------------------------------------------------------------ *)
(* a lockfile is removed only by the unlink of the process that linked it *)
UnlinkOnlyByOwner ==
    \A x \in AllPaths :
        (files[x] # NoIno /\ files'[x] = NoIno) =>
            \E p \in Procs :
                /\ pc[p] = "u_unlink" /\ pc'[p] # "u_unlink"
                /\ ml[p].lockfile = x /\ owner[x] = p

(* C5: mnt_unlock_file unlinks the lockfile only when its handle made the
   link, so the lockfile of the process that holds the lock stays on disk
   whatever releases other handles run *)
C5_UnlockOnlyOwnLockfile ==
    /\ [](\A p \in Procs :
            Holding(p) => files[ml[p].lockfile] # NoIno /\ owner[ml[p].lockfile] = p)
    /\ [][UnlinkOnlyByOwner]_vars

(* a handle that was never locked, or whose acquisition failed, runs its
   release while another process holds the lock *)
C5_Witness ==
    \E p, q \in Procs :
        /\ p # q /\ Holding(p)
        /\ pc[q] = "u_close" /\ ~ml[q].locked
        /\ files[ml[q].lockfile] = files[ml[p].lockfile]

(* ------------------------------------------------------------------ *)
(* Claims about one handle driven through the API                      *)
(* ------------------------------------------------------------------ *)
IoErrors == {-EROFS, -EIO, -ENOLCK}

(* mnt_lock_file has just returned 0 *)
Acquired(p) == pc[p] = "ret_lock" /\ rc[p] = 0

(* C6: after mnt_unlock_file returns the handle is idle, in either protocol
   and whatever its state was; mnt_lock_file that returns 0 leaves it locked;
   and on a handle that has been through a lock/unlock cycle mnt_lock_file
   fails only on an I/O error or when a lockfile is on disk *)
C6_HandleCycles ==
    \A p \in Callers :
        /\ pc[p] = "ret_unlock" =>
              ~ml[p].locked /\ ml[p].lockfile_fd = NoFd
        /\ Acquired(p) => ml[p].locked
        /\ (pc[p] = "ret_lock" /\ rc[p] # 0 /\ cycles[p] >= 1) =>
              \/ rc[p] \in IoErrors
              \/ rc[p] = -ETIMEDOUT /\ files[ml[p].lockfile] # NoIno

(* a handle that was locked and unlocked before is locked again, by the
   hard-link protocol *)
C6_Witness ==
    \E p \in Callers :
        /\ Acquired(p) /\ ml[p].locked /\ ~ml[p].simplelock
        /\ cycles[p] = MaxCycles /\ owner[ml[p].lockfile] = p

(* C7 as stated: with signal blocking enabled, in both protocols the signals
   blocked while the lock is held are all but SIGTRAP and SIGALRM *)
C7_BlocksAllButTrapAlarm ==
    \A p \in Callers :
        (Acquired(p) /\ ml[p].locked /\ blockAtLock[p] # "none") =>
            procmask[p] = maskBefore[p] \cup (Signals \ {"SIGTRAP", "SIGALRM"})

(* C7: with signal blocking enabled the hard-link protocol blocks every
   signal except SIGTRAP and SIGALRM while the lock is held, the simple-lock
   protocol blocks every signal; after a failed acquisition and after the
   release the mask is the one from just before the acquisition *)
C7_SignalMask ==
    \A p \in Callers :
        /\ (Acquired(p) /\ ml[p].locked /\ blockAtLock[p] = "mtab") =>
              procmask[p] = maskBefore[p] \cup (Signals \ {"SIGTRAP", "SIGALRM"})
        /\ (Acquired(p) /\ ml[p].locked /\ blockAtLock[p] = "simple") =>
              procmask[p] = maskBefore[p] \cup Signals
        /\ (pc[p] = "ret_lock" /\ rc[p] # 0 /\ blockAtLock[p] # "none"
                /\ ml[p].sigblock) =>
              procmask[p] = maskBefore[p]
        /\ (pc[p] = "ret_unlock" /\ blockAtLock[p] # "none" /\ ml[p].sigblock) =>
              procmask[p] = maskBefore[p]

(* a release restored a mask that was not empty, after the simple-lock
   protocol had blocked every signal *)
C7_Witness ==
    \E p \in Callers :
        /\ pc[p] = "ret_unlock" /\ blockAtLock[p] = "simple" /\ ml[p].sigblock
        /\ cycles[p] >= 1
        /\ maskBefore[p] = {"SIGINT"} /\ procmask[p] = {"SIGINT"}

(* what the reference-count operations do to the handle *)
RefcountSteps ==
    \A p \in Callers :
        /\ ApiNew(p, DataFile, 0) => ml'[p].alive /\ ml'[p].refcount = 1
        /\ ApiRef(p) => ml'[p].alive /\ ml'[p].refcount = ml[p].refcount + 1
        /\ ApiUnref(p) =>
              /\ ml'[p].refcount = ml[p].refcount - 1
              /\ ml'[p].alive <=> ml'[p].refcount > 0
        /\ (ml[p].alive /\ ~ml'[p].alive) => ApiUnref(p)

(* C8: the count is 1 after mnt_new_lock, mnt_ref_lock adds one and
   mnt_unref_lock takes one away; the handle is deallocated exactly when the
   count reaches zero, by mnt_unref_lock and by nothing else *)
C8_Refcount ==
    /\ [](\A p \in Callers : ml[p].alive <=> ml[p].refcount >= 1)
    /\ [][RefcountSteps]_vars

(* a handle with two extra references, locked *)
C8_Witness ==
    \E p \in Callers :
        ml[p].alive /\ ml[p].refcount = MaxRef /\ ml[p].locked /\ pc[p] = "api"

(* C9: a handle made for data file D and identifier I has linkfile D~.I
   (the process id for I = 0) whatever mode switches were made, and lockfile
   D.lock in simple-lock mode and D~ otherwise *)
C9_Names ==
    \A p \in Callers :
        ml[p].alive =>
            LET D == newArgs[p].datafile
                I == IF newArgs[p].id = 0 THEN Pid(p) ELSE newArgs[p].id
            IN  /\ ml[p].linkfile = D \o <<"~", ".">> \o Dec(I)
                /\ ml[p].lockfile = IF ml[p].simplelock
                                    THEN D \o <<".", "l", "o", "c", "k">>
                                    ELSE D \o <<"~">>

(* simple-lock mode on a data file whose own name ends in ".lock", with the
   process id in the linkfile *)
C9_Witness ==
    \E p \in Callers :
        /\ ml[p].alive /\ ml[p].simplelock
        /\ newArgs[p] = [datafile |-> <<"a", ".", "l", "o", "c", "k">>, id |-> 0]
        /\ ml[p].lockfile = <<"a", ".", "l", "o", "c", "k", ".", "l", "o", "c", "k">>
        /\ ml[p].linkfile = <<"a", ".", "l", "o", "c", "k", "~", ".">> \o Dec(Pid(p))

(* ------------------------------------------------------------------ *)
(* Claims about the mount table                                        *)
(* ------------------------------------------------------------------ *)
(* C10: after any sequence of mnt_tab_add_fs, mnt_tab_remove_fs,
   mnt_tab_parse_stream and mnt_free_fs of an entry of the table,
   mnt_tab_get_nents equals the number of entries linked in the list *)
C10_NentsIsListLength == mnt_tab_get_nents = Len(tb_ents)

(* ------------------------------------------------------------------ *)
(* Claims about iteration and lookup                                   *)
(* ------------------------------------------------------------------ *)
RECURSIVE Reverse(_)
Reverse(q) == IF q = <<>> THEN <<>> ELSE Append(Reverse(Tail(q)), Head(q))

(* the table's entries in the order the iterator's direction asks for *)
InDirection(ents, direction) ==
    IF direction = MNT_ITER_FORWARD THEN ents ELSE Reverse(ents)

WalkSoFar ==
    /\ Len(seen) <= Len(tb_ents)
    /\ seen = SubSeq(InDirection(tb_ents, itr.direction), 1, Len(seen))
    /\ itr_rc \in {0, 1}
    /\ itr_rc = 1 => Len(seen) = Len(tb_ents)

(* a step that is a mnt_tab_next_fs call returns the next entry of the
   walk, or end when all have been returned *)
WalkStep ==
    itr'.head =>
        IF Len(seen) < Len(tb_ents)
        THEN /\ itr_rc' = 0
             /\ seen' = Append(seen,
                    InDirection(tb_ents, itr.direction)[Len(seen) + 1])
        ELSE itr_rc' = 1 /\ seen' = seen

(* C11: from a freshly reset forward iterator mnt_tab_next_fs returns every
   entry of the table exactly once in the order of insertion and then
   returns 1; a backward iterator returns them in the reverse order *)
C11_IterationOrder == [](WalkSoFar) /\ [][WalkStep]_vars

(* a backward walk over three entries has returned end *)
C11_Witness ==
    /\ itr.head /\ itr.direction = MNT_ITER_BACKWARD
    /\ itr_rc = 1
    /\ Len(tb_ents) = 3
    /\ seen = Reverse(tb_ents)
    /\ seen # tb_ents

(* the first entry, in the direction asked for, whose target equals the
   path when one trailing slash is dropped on both sides; 0 when none *)
FirstRawMatch(path, direction) ==
    LET d == InDirection(tb_ents, direction)
        hits == {i \in 1..Len(d) :
                    /\ fs_target[d[i]] # NULL
                    /\ WithoutSlash(Str(fs_target[d[i]])) = WithoutSlash(path)}
    IN  IF hits = {} THEN 0
        ELSE d[CHOOSE i \in hits : \A j \in hits : i <= j]

(* C12: without a resolver cache mnt_tab_find_target takes only the first
   pass: it returns the first entry in the direction whose raw target equals
   the path modulo one trailing slash, and NULL when there is none *)
C12_FindTargetNoCache ==
    (find.path # NULL /\ ~tb_cache) =>
        find.res = FirstRawMatch(Str(find.path), find.direction)

(* a backward lookup of /a/ in a table of three entries finds the last
   one, /a, although the first one is /a/ *)
C12_Witness ==
    /\ ~tb_cache
    /\ find.path = << <<"/", "a", "/">> >>
    /\ find.direction = MNT_ITER_BACKWARD
    /\ Len(tb_ents) = 3
    /\ find.res = tb_ents[3]
    /\ fs_target[tb_ents[3]] = << <<"/", "a">> >>
    /\ fs_target[tb_ents[1]] = << <<"/", "a", "/">> >>

(* ------------------------------------------------------------------ *)
(* Claims about the parser's error callback                            *)
(* ------------------------------------------------------------------ *)
(* What the callback contract asks of a parse of lines from line i on:
   the number of entries added and the return value.  A malformed line
   is skipped when the callback returns a positive value or when there is
   no callback, ends the parse with the callback's value when that is
   negative, and counts as parsed when the callback returns 0. *)
RECURSIVE ByContract(_, _, _, _)
ByContract(lines, errcb, i, added) ==
    IF i > Len(lines) THEN [added |-> added, rc |-> 0]
    ELSE LET v == IF errcb = <<>> THEN 1 ELSE errcb[1]
         IN  IF lines[i] = "blank" THEN ByContract(lines, errcb, i + 1, added)
             ELSE IF lines[i] = "ok" \/ v = 0
             THEN ByContract(lines, errcb, i + 1, added + 1)
             ELSE IF v > 0 THEN ByContract(lines, errcb, i + 1, added)
             ELSE [added |-> added, rc |-> v]

(* C13: on a malformed line the error callback's return value decides: a
   negative value aborts the parse, which returns it; a positive value
   skips the line and parsing continues; zero counts as success; without a
   callback every malformed line is skipped *)
C13_ErrcbDecides ==
    parse_call.called =>
        LET c == ByContract(parse_call.lines, parse_call.errcb, 1, 0)
        IN  parse_rc = c.rc /\ Len(tb_ents) = c.added

(* ------------------------------------------------------------------ *)
(* Claims about one entry                                              *)
(* ------------------------------------------------------------------ *)
None == <<"n", "o", "n", "e">>

(* C14 as stated: the entry never holds both a source and a tag pair *)
C14_SourceXorTag == ~(ent.source # NULL /\ ent.tagname # NULL)

(* the entry holds a tag pair exactly when its source is a NAME=VALUE
   string, and the pair is that string's two halves *)
TagIsParsedSource ==
    /\ (ent.tagname = NULL) = (ent.tagval = NULL)
    /\ (ent.tagname # NULL) =
          (ent.source # NULL /\ strchr(Str(ent.source), "=") # 0)
    /\ ent.tagname # NULL =>
          /\ Str(ent.source) = Str(ent.tagname) \o <<"=">> \o Str(ent.tagval)
          /\ mnt_fs_get_srcpath(ent) = NULL
    /\ ent.source # <<None>>

(* what a mnt_fs_set_source call does to the entry *)
SetSourceStep ==
    (ent_call'.fn = "mnt_fs_set_source") =>
        LET a == Str(ent_call'.arg)
        IN  IF ent_call'.rc # 0 THEN ent' = ent
            ELSE /\ ent'.source = IF a = None THEN NULL ELSE <<a>>
                 /\ (ent'.tagname # NULL) = (strchr(a, "=") # 0)

(* C14 amended: a tag string is kept whole in source next to the tag pair
   made of its halves; any other string sets source and clears the pair;
   none clears both; a refused string changes nothing *)
C14_SourceAndTag == []TagIsParsedSource /\ [][SetSourceStep]_vars

(* a tag string was set: source keeps the whole string and the tag pair
   holds its two halves *)
C14_Witness ==
    /\ ent_call.fn = "mnt_fs_set_source" /\ ent_call.rc = 0
    /\ ent_call.arg = << <<"L", "=", "x">> >>
    /\ ent.source = << <<"L", "=", "x">> >>
    /\ ent.tagname = << <<"L">> >> /\ ent.tagval = << <<"x">> >>

(* the classification the spec derives from fs_type alone *)
Classify(fstype) ==
    IF fstype = NULL THEN {}
    ELSE IF mnt_fstype_is_pseudofs(Str(fstype)) THEN {"MNT_FS_PSEUDO"}
    ELSE IF mnt_fstype_is_netfs(Str(fstype)) THEN {"MNT_FS_NET"}
    ELSE IF Str(fstype) = <<"s", "w", "a", "p">> THEN {"MNT_FS_SWAP"}
    ELSE {}

(* C15: after any sequence of fs_type setter calls the three classification
   bits are a function of the current fs_type only *)
C15_FlagsFromFstype == ent.flags = Classify(ent.fstype)

(* ------------------------------------------------------------------ *)
(* Claims about the option-string engine                               *)
(* ------------------------------------------------------------------ *)
(* the number of double quotes in str[i..j] *)
RECURSIVE QuoteCount(_, _, _)
QuoteCount(str, i, j) ==
    IF i > j THEN 0
    ELSE (IF str[i] = "\"" THEN 1 ELSE 0) + QuoteCount(str, i + 1, j)

(* the separators of the item that starts at from: commas outside quotes *)
Separators(str, from) ==
    {q \in from..Len(str) :
        str[q] = "," /\ QuoteCount(str, from, q - 1) % 2 = 0}

(* a comma lies in a quoted block that is opened in the item at from and
   never closed *)
SeparatorInOpenQuote(str, from) ==
    /\ Separators(str, from) = {}
    /\ QuoteCount(str, from, Len(str)) % 2 = 1
    /\ \E q \in from..Len(str) : str[q] = ","

(* the end of the item at from: its separator, or the end of the string *)
ItemStop(str, from) ==
    IF Separators(str, from) = {} THEN Len(str) + 1
    ELSE CHOOSE q \in Separators(str, from) :
            \A r \in Separators(str, from) : q <= r

(* what parse-next has to answer with the cursor at from *)
NextOptionAsSpecified(str, from, res, cursor) ==
    IF from > Len(str) THEN res.rc = 1
    ELSE IF str[from] = "," THEN res.rc = -EINVAL
    ELSE IF SeparatorInOpenQuote(str, from) THEN res.rc = -EINVAL
    ELSE /\ res.rc = 0
         /\ res.name = from
         /\ cursor = Min(ItemStop(str, from) + 1, Len(str) + 1)

(* C20: mnt_optstr_next_option fails with -EINVAL whenever the item at the
   cursor is empty and whenever a separator lies inside a quoted block that
   is never closed; it returns 1 only with the cursor at the end of the
   string; otherwise it returns the item and moves the cursor past the
   item's separator *)
C20_NextOption ==
    pn.called => NextOptionAsSpecified(pn.str, pn.from, pn.res, pn.cursor)

(* ------------------------------------------------------------------ *)
(* C17, C19: editing an option string                                  *)
(* ------------------------------------------------------------------ *)
(* the string has no comma at its start, none at its end, and no two
   commas in a row; NULL and the empty string have none *)
NoStrayComma(ptr) ==
    \/ ptr = NULL
    \/ LET s == Str(ptr)
       IN  \/ Len(s) = 0
           \/ /\ s[1] # ","
              /\ s[Len(s)] # ","
              /\ \A i \in 1..(Len(s) - 1) : ~(s[i] = "," /\ s[i + 1] = ",")

CommaSafeStep ==
    (/\ opt_call'.op \in {"append", "prepend", "remove"}
     /\ NoStrayComma(optstr))
        => NoStrayComma(optstr')

(* C17: an append, a prepend or a remove with a non-empty name, applied to a
   string without a leading, trailing or double comma, leaves a string
   without a leading, trailing or double comma *)
C17_NoStrayComma == [][CommaSafeStep]_vars

(* an item was removed from the middle or the end of a longer string *)
C17_Witness ==
    /\ opt_call = [op |-> "remove", rc |-> 0]
    /\ optstr # NULL
    /\ \E i \in 1..Len(Str(optstr)) : Str(optstr)[i] = ","

TransactionalStep == opt_call'.rc < 0 => optstr' = optstr

(* C19: an append, prepend, set or remove that returns an error leaves the
   caller's option string as it was before the call *)
C19_Transactional == [][TransactionalStep]_vars

(* ------------------------------------------------------------------ *)
(* C16: merged options                                                 *)
(* ------------------------------------------------------------------ *)
(* the items of a string without quotes, split at the commas *)
RECURSIVE SplitItems(_, _)
SplitItems(s, item) ==
    IF Len(s) = 0 THEN <<item>>
    ELSE IF Head(s) = "," THEN <<item>> \o SplitItems(Tail(s), <<>>)
    ELSE SplitItems(Tail(s), Append(item, Head(s)))

ItemsOf(ptr) == IF Len(Str(ptr)) = 0 THEN <<>> ELSE SplitItems(Str(ptr), <<>>)

RECURSIVE WithoutRwRo(_)
WithoutRwRo(items) ==
    IF Len(items) = 0 THEN <<>>
    ELSE IF Head(items) \in {RW, RO} THEN WithoutRwRo(Tail(items))
    ELSE <<Head(items)>> \o WithoutRwRo(Tail(items))

Holds(ptr, token) == \E i \in 1..Len(ItemsOf(ptr)) : ItemsOf(ptr)[i] = token

(* the leading token, then the other items of vfs and of fs in order *)
Merged(lead, vfs, fs) ==
    << JoinItems(<<lead>> \o WithoutRwRo(ItemsOf(vfs))
                          \o WithoutRwRo(ItemsOf(fs))) >>

(* C16 as stated: merging two strings gives rw and the other items of both
   when both strings hold rw, and ro and the other items in every other
   case *)
C16_ReadOnlyUnlessBothRw ==
    (mg.called /\ ~mg.oom /\ mg.vfs # NULL /\ mg.fs # NULL) =>
        mg.res = Merged(IF Holds(mg.vfs, RW) /\ Holds(mg.fs, RW)
                        THEN RW ELSE RO,
                        mg.vfs, mg.fs)

(* two different, non-empty strings, each with at most one rw or ro *)
Mergeable(vfs, fs) ==
    /\ vfs # NULL /\ fs # NULL /\ vfs # fs
    /\ Len(Str(vfs)) > 0 /\ Len(Str(fs)) > 0
    /\ \A x \in {vfs, fs} :
          Cardinality({ i \in 1..Len(ItemsOf(x)) : ItemsOf(x)[i] \in {RW, RO} })
              <= 1

(* C16: for two different non-empty strings with at most one rw or ro each,
   and an allocation that succeeds, the merged string is one leading token
   followed by the other items of both strings in order; the token is ro
   when one of the strings holds ro and rw when none does *)
C16_ReadOnlyIfAnyRo ==
    (mg.called /\ ~mg.oom /\ Mergeable(mg.vfs, mg.fs)) =>
        mg.res = Merged(IF Holds(mg.vfs, RO) \/ Holds(mg.fs, RO)
                        THEN RO ELSE RW,
                        mg.vfs, mg.fs)

(* one string holds rw, the other neither rw nor ro: the result is rw *)
C16_Witness ==
    /\ mg.called /\ ~mg.oom /\ Mergeable(mg.vfs, mg.fs)
    /\ Holds(mg.vfs, RW) /\ ~Holds(mg.fs, RW) /\ ~Holds(mg.fs, RO)
    /\ mg.res # NULL /\ SubSeq(Str(mg.res), 1, 2) = RW

(* ------------------------------------------------------------------ *)
(* C18: append, then remove                                            *)
(* ------------------------------------------------------------------ *)
RECURSIVE StripCommas(_)
StripCommas(s) ==
    IF Len(s) > 0 /\ s[Len(s)] = "," THEN StripCommas(SubSeq(s, 1, Len(s) - 1))
    ELSE s

(* a string without its trailing commas; no string counts as the empty one *)
Normal(ptr) == IF ptr = NULL THEN <<>> ELSE StripCommas(Str(ptr))

(* where the items of s start: at 1 and behind each comma outside quotes *)
ItemStarts(s) == {1} \cup { q + 1 : q \in Separators(s, 1) }

(* the name of the item at st: up to its first = outside quotes, or all of
   the item *)
ItemName(s, st) ==
    LET stop == ItemStop(s, st)
        eqs == { q \in st..(stop - 1) :
                   s[q] = "=" /\ QuoteCount(s, st, q - 1) % 2 = 0 }
        e == IF eqs = {} THEN stop
             ELSE CHOOSE q \in eqs : \A r \in eqs : q <= r
    IN  SubSeq(s, st, e - 1)

(* every quote is closed and no item is empty *)
WellFormed(s) ==
    /\ QuoteCount(s, 1, Len(s)) % 2 = 0
    /\ \A st \in ItemStarts(s) : st <= Len(s) /\ s[st] # ","

(* no string, the empty string, or a well-formed one *)
OptionString(ptr) == ptr = NULL \/ Len(Str(ptr)) = 0 \/ WellFormed(Str(ptr))

(* C18 as stated: for every option string, name and value, the string after
   the append and the remove equals the original one up to trailing commas *)
C18_RoundTrip ==
    (rt.stage = "remove" /\ OptionString(rt.orig)) =>
        Normal(optstr) = Normal(rt.orig)

HoldsName(s, n) == \E st \in ItemStarts(s) : ItemName(s, st) = n

RoundTripInput(ptr, n) ==
    /\ OptionString(ptr)
    /\ ptr # NULL /\ Len(Str(ptr)) > 0 => ~HoldsName(Str(ptr), n)

(* C18: for a string that is missing, empty, or made of non-empty items with
   every quote closed and no item named n, a successful append of (n, v)
   followed by the removal of n succeeds and gives back the original
   string, the empty string for a missing one *)
C18_RoundTripWithoutName ==
    (rt.stage = "remove" /\ RoundTripInput(rt.orig, rt.name)) =>
        /\ rt.rc = 0
        /\ optstr = IF rt.orig = NULL THEN << <<>> >> ELSE rt.orig

(* a valued option went through a string of two items and back *)
C18_Witness ==
    /\ rt.stage = "remove" /\ RoundTripInput(rt.orig, rt.name)
    /\ rt.orig # NULL /\ Separators(Str(rt.orig), 1) # {}
    /\ rt.value # NULL /\ Len(Str(rt.value)) > 0

(* ------------------------------------------------------------------ *)
(* C21: unmangling a field                                             *)
(* ------------------------------------------------------------------ *)
OctalDigit(b) == b \in 48..55

(* s from its i-th byte on, with every backslash and three octal digits
   replaced by the byte 64*d1 + 8*d2 + d3 *)
RECURSIVE Decoded(_, _)
Decoded(s, i) ==
    IF i > Len(s) THEN <<>>
    ELSE IF /\ s[i] = Backslash /\ i + 3 <= Len(s)
            /\ OctalDigit(s[i + 1]) /\ OctalDigit(s[i + 2])
            /\ OctalDigit(s[i + 3])
    THEN <<64 * (s[i + 1] - 48) + 8 * (s[i + 2] - 48) + (s[i + 3] - 48)>>
             \o Decoded(s, i + 4)
    ELSE <<s[i]>> \o Decoded(s, i + 1)

(* C21: unmangling a field in place replaces every backslash followed by
   three octal digits, at the start, in the middle or at the end of the
   field, by the byte 64*d1 + 8*d2 + d3, copies every other byte, and never
   gives more bytes than the field had *)
C21_Unmangle ==
    um.called => /\ um.out = Decoded(um.s, 1)
                 /\ Len(um.out) <= Len(um.s)

(* ------------------------------------------------------------------ *)
(* C22, C23: the files of a hard-link acquisition                      *)
(* ------------------------------------------------------------------ *)
LockfileIno(p) == files[ml[p].lockfile]

(* C22 as stated: while a handle is locked by the hard-link protocol its
   lockfile exists, and its linkfile exists and is the same file *)
C22_LockedFiles ==
    \A p \in Procs :
        (ml[p].alive /\ ml[p].locked /\ ~ml[p].simplelock) =>
            /\ LockfileIno(p) # NoIno
            /\ linkino[p] # NoIno
            /\ linkino[p] = LockfileIno(p)

(* lock_mtab has made the link and has not yet unlinked the linkfile *)
InsideLockMtab(p) == pc[p] \in {"l_open", "l_setlk"}

(* C22: while a handle is locked by the hard-link protocol its lockfile
   exists and is the file this handle linked; the linkfile exists and is
   the same file from the link() until lock_mtab is left, and is unlinked
   when mnt_lock_file has returned *)
C22_LockedLockfile ==
    \A p \in Procs :
        (ml[p].alive /\ ml[p].locked /\ ~ml[p].simplelock) =>
            /\ LockfileIno(p) # NoIno
            /\ owner[ml[p].lockfile] = p
            /\ InsideLockMtab(p) => linkino[p] = LockfileIno(p)
            /\ pc[p] \in {"ret_lock", "incr_read", "incr_write"} =>
                   linkino[p] = NoIno

(* one updater holds the lock after mnt_lock_file returned, another has
   just made its linkfile *)
C22_Witness ==
    \E p, q \in Procs :
        /\ p # q
        /\ ml[p].locked /\ pc[p] = "incr_read" /\ LockfileIno(p) # NoIno
        /\ pc[q] = "l_link" /\ linkino[q] # NoIno

(* C23: when mnt_unlock_file has returned, no lockfile made by the link()
   of this handle is on disk, also when a signal unwound lock_mtab after
   the link() and before ml->locked was set *)
C23_NoLockfileLeft ==
    \A p \in Procs :
        pc[p] \in {"ret_unlock", "done"} =>
            \A x \in AllPaths : ~(files[x] # NoIno /\ owner[x] = p)

(* the unwound handle found its linkfile and the lockfile to be one file:
   it is locked again although it never opened the lockfile *)
C23_Witness ==
    \E p \in Procs :
        /\ pc[p] = "u_close" /\ exiting[p]
        /\ ml[p].locked /\ ml[p].lockfile_fd = NoFd
        /\ LockfileIno(p) # NoIno /\ owner[ml[p].lockfile] = p

(* ------------------------------------------------------------------ *)
(* C24: a signal during the blocking wait                              *)
(* ------------------------------------------------------------------ *)
(* C24: a hard-link acquisition fails with -ETIMEDOUT only when its
   deadline has been reached, also when a signal other than the deadline
   alarm interrupted the wait for the lock *)
C24_TimeoutOnlyAtDeadline ==
    \A p \in Procs :
        (infail[p] /\ rc[p] = -ETIMEDOUT) => Expired(p)

(* ------------------------------------------------------------------ *)
(* C25: the first step of a hard-link acquisition                      *)
(* ------------------------------------------------------------------ *)
(* lock_mtab is entered on a handle whose linkfile is on disk *)
EntersWithLinkfile(p) ==
    /\ pc[p] = "call_lock" /\ pc'[p] # "call_lock"
    /\ ~ml[p].simplelock /\ ~ml[p].locked
    /\ linkino[p] # NoIno

CreateFailsStep ==
    \A p \in Procs :
        EntersWithLinkfile(p) => pc'[p] = "u_enter" /\ infail'[p] /\ rc'[p] < 0

(* C25 as stated: when a file with the linkfile's name exists, the create
   fails and the acquisition returns the error without a link() *)
C25_ExclusiveCreate == [][CreateFailsStep]_vars

ReusesLinkfileStep ==
    \A p \in Procs :
        EntersWithLinkfile(p) =>
            /\ pc'[p] = "l_link"
            /\ linkino'[p] = linkino[p]
            /\ ~infail'[p]

(* C25: the first step of a hard-link acquisition opens the linkfile and
   creates it only if it is missing: when a file with the linkfile's name
   exists, that file is used and the acquisition goes on to link() *)
C25_ReusesLinkfile == [][ReusesLinkfileStep]_vars

(* the acquisition is about to link() the file that was left *)
C25_Witness ==
    \E p \in Procs :
        /\ pc[p] = "l_link" /\ linkino[p] = LeftLinkfile
        /\ ~ml[p].simplelock /\ ~ml[p].locked

(* ------------------------------------------------------------------ *)
(* C26: what mnt_tab_next_fs returns after mnt_tab_set_iter            *)
(* ------------------------------------------------------------------ *)
(* the entry after f in the direction, 0 when f is the last one *)
Successor(ents, f, direction) ==
    LET i == PosOf(ents, f)
    IN  IF direction = MNT_ITER_FORWARD
        THEN (IF i = Len(ents) THEN 0 ELSE ents[i + 1])
        ELSE (IF i = 1 THEN 0 ELSE ents[i - 1])

(* C26 as stated: after mnt_tab_set_iter(tb, itr, fs) the next
   mnt_tab_next_fs returns the successor of fs in the iterator's direction,
   or the end (1) when fs is the last entry, and not fs itself *)
C26_NextIsSuccessor ==
    sit.called =>
        LET succ == Successor(tb_ents, sit.fs, itr.direction)
        IN  /\ sit.res = succ
            /\ sit.rc = (IF succ = 0 THEN 1 ELSE 0)

(* C26: after mnt_tab_set_iter(tb, itr, fs) the next mnt_tab_next_fs
   returns 0 and fs itself, and leaves the iterator on the successor of fs in
   the iterator's direction *)
C26_NextIsEntry ==
    sit.called =>
        /\ sit.rc = 0
        /\ sit.res = sit.fs
        /\ itr.head
        /\ itr.p = (LET succ == Successor(tb_ents, sit.fs, itr.direction)
                    IN  IF succ = 0 THEN 0 ELSE PosOf(tb_ents, succ))

C26_Witness ==
    /\ sit.called
    /\ Len(tb_ents) > 1
    /\ Successor(tb_ents, sit.fs, itr.direction) # 0
    /\ itr.direction = MNT_ITER_BACKWARD

(* ------------------------------------------------------------------ *)
(* C27: the children of one parent, in the order of their ids          *)
(* ------------------------------------------------------------------ *)
(* the entries of the table mounted on the parent of the loop *)
Children ==
    { f \in FsIds : /\ InTable(tb_ents, f)
                    /\ fs_parent[f] = fs_id[kid.parent] }

(* C27: from a freshly reset iterator, the calls of mnt_tab_next_child_fs
   for one parent return only entries whose parent_id is the parent's id, in
   strictly increasing order of id whatever their positions, so each at most
   once; the call that returns 1 comes when every such entry was returned,
   after at most one call more than there are children *)
C27_ChildrenInIdOrder ==
    kid.parent # 0 =>
        /\ kid.rc \in {0, 1}
        /\ \A i \in 1..Len(kid.got) : kid.got[i] \in Children
        /\ \A i, j \in 1..Len(kid.got) :
              i < j => fs_id[kid.got[i]] < fs_id[kid.got[j]]
        /\ kid.calls = Len(kid.got) + kid.rc
        /\ kid.calls <= Cardinality(Children) + 1
        /\ kid.rc = 1 => { kid.got[i] : i \in 1..Len(kid.got) } = Children

(* the loop has ended after two children that stand in the table against
   the order of their ids *)
C27_Witness ==
    /\ kid.parent # 0
    /\ kid.rc = 1
    /\ Len(kid.got) >= 2
    /\ PosOf(tb_ents, kid.got[1]) > PosOf(tb_ents, kid.got[2])

(* ------------------------------------------------------------------ *)
(* C28: the three passes of mnt_tab_find_target                        *)
(* ------------------------------------------------------------------ *)
(* the first entry of d that is in hits, 0 when there is none *)
FirstOf(d, hits) ==
    LET at == {i \in 1..Len(d) : d[i] \in hits}
    IN  IF at = {} THEN 0 ELSE d[CHOOSE i \in at : \A j \in at : i <= j]

(* the entry the three passes give: the raw target equals the path, the raw
   target equals the canonicalized path, the canonicalized target equals
   the canonicalized path for every entry but swap entries mounted on / *)
ThreePasses(path, direction) ==
    LET d == InDirection(tb_ents, direction)
        cn == mnt_resolve_path(path)
        p1 == FirstOf(d, {f \in FsIds :
                            streq_except_trailing_slash(fs_target[f], <<path>>)})
        p2 == FirstOf(d, {f \in FsIds :
                            streq_except_trailing_slash(fs_target[f], cn)})
        p3 == FirstOf(d, {f \in FsIds :
                            /\ fs_target[f] # NULL
                            /\ ~(/\ "MNT_FS_SWAP" \in fs_rec[f].flags
                                 /\ Str(fs_target[f]) = <<"/">>)
                            /\ mnt_resolve_path(Str(fs_target[f])) = cn})
    IN  IF p1 # 0 THEN p1 ELSE IF p2 # 0 THEN p2 ELSE p3

(* C28: with a resolver cache set, mnt_tab_find_target returns the first
   hit of the earliest of three passes: raw target against the path, raw
   target against the canonicalized path, canonicalized target against the
   canonicalized path, where the third pass compares every entry except swap
   entries whose target is / *)
C28_ThreePasses ==
    (find.path # NULL /\ tb_cache) =>
        find.res = ThreePasses(Str(find.path), find.direction)

(* ------------------------------------------------------------------ *)
(* C29: network and pseudo entries in mnt_tab_find_srcpath             *)
(* ------------------------------------------------------------------ *)
(* the lookup returned an entry flagged network or pseudo *)
FoundNetPseudo ==
    /\ find_src.res # 0
    /\ fs_rec[find_src.res].flags \cap {"MNT_FS_NET", "MNT_FS_PSEUDO"} # {}

(* C29 as stated: an entry flagged network or pseudo is returned by the
   first pass only, every pass that compares against the canonicalized path
   excludes such entries *)
C29_OnlyFirstPass == FoundNetPseudo => find_src.pass = 1

(* C29: an entry flagged network or pseudo is never returned by the last
   pass, which canonicalizes the entry's source path; it is returned by the
   first pass when its source path equals the path, by the second when its
   source path equals the canonicalized path, or by the tag pass when it has
   a tag *)
C29_NotByLastPass ==
    FoundNetPseudo =>
        LET fs == fs_rec[find_src.res]
        IN  /\ find_src.pass \in 1..3
            /\ find_src.pass = 1 => mnt_fs_streq_srcpath(fs, find_src.path)
            /\ find_src.pass = 2 =>
                  mnt_fs_streq_srcpath(fs, mnt_resolve_path(Str(find_src.path)))
            /\ find_src.pass = 3 => fs.tagname # NULL

(* the lookup of the symbolic link /l returned a network entry whose source
   is the link's target /a, in the second pass *)
C29_Witness ==
    /\ FoundNetPseudo
    /\ find_src.pass = 2
    /\ find_src.path = << <<"/", "l">> >>
    /\ "MNT_FS_NET" \in fs_rec[find_src.res].flags

(* ------------------------------------------------------------------ *)
(* C30: the handle after a failed mnt_lock_file                        *)
(* ------------------------------------------------------------------ *)
(* mnt_lock_file has just returned an error *)
LockFailed(p) == pc[p] = "ret_lock" /\ rc[p] # 0

(* C30: when mnt_lock_file returns an error, in either protocol and
   whichever step failed, the handle is idle: locked is clear, lockfile_fd
   is -1 and a signal mask blocked for the attempt is restored *)
C30_FailedLockIsIdle ==
    \A p \in Callers :
        LockFailed(p) =>
            /\ ~ml[p].locked
            /\ ml[p].lockfile_fd = NoFd
            /\ (blockAtLock[p] # "none" /\ ml[p].sigblock) =>
                  procmask[p] = maskBefore[p]

====
